---- MODULE Spec2Model ----
(***************************************************************************)
(* VoxaOS: the voice-activity segmenter (voice/vad.py), the conversation   *)
(* context store (core/context.py), the tool executor (tools/executor.py), *)
(* the agent loop (core/orchestrator.py), the turn-taking pipeline         *)
(* (voice/pipeline.py) and the WebSocket adapter (server/audio_handler.py, *)
(* server/app.py).                                                         *)
(*                                                                         *)
(* Each component has its own specification over the shared variables:     *)
(*   SpecVAD   the segmenter alone, frame by frame                         *)
(*   SpecCtx   the context store alone                                     *)
(*   SpecExec  the tool executor alone, one execute call per step          *)
(*   SpecRisk  the tool executor alone, classify_risk calls with execute   *)
(*             calls in between                                            *)
(*   SpecShell the tool executor running run_shell (tools/shell.py): the   *)
(*             process writes, time passes, the process exits or the       *)
(*             timeout expires                                             *)
(*   SpecOrch  Orchestrator.process, one step per awaited call             *)
(*   SpecTurns Orchestrator.process with a second invocation interleaved   *)
(*             at its awaits, on one context store                         *)
(*   SpecPcm   the conversion of synthesized samples to 16-bit PCM on the  *)
(*             voice path and on the text_input path                       *)
(*   Spec      the server: the connections of /ws/audio, their handlers    *)
(*             and the one pipeline they share, one step per message       *)
(*             received and per awaited STT, agent-loop and TTS call       *)
(*   SpecPtt   Spec, with push-to-talk buffers of several chunks           *)
(*   SpecSerial Spec, with a message delivered only while no call of       *)
(*             another connection is in flight                             *)
(*   SpecDrop  SpecSerial, with observers (sends to the client) that may    *)
(*             raise                                                       *)
(*   SpecLive  Spec, with every awaited STT, agent-loop and TTS call       *)
(*             eventually returning or raising                             *)
(* The variables a specification does not use keep their initial values.   *)
(* A task yields at the awaited STT, agent-loop and TTS calls; an observer  *)
(* (a send on the WebSocket) returns normally, without another task         *)
(* running in between.                                                     *)
(***************************************************************************)
EXTENDS Integers, Sequences, FiniteSets, TLC

VARIABLES
    \* ---- SileroVAD (voice/vad.py) ----
    vad,            \* [speech_frames, silence_frames, in_speech]
    start_frames,   \* self._start_frames
    end_frames,     \* self._end_frames
    vad_result,     \* the dict returned by the last process_chunk, or NoResult
    run,            \* ghost: [speech, silence, was_in_speech] measured on the fed frames
    \* ---- ContextManager (core/context.py) ----
    history,        \* self.history
    max_history,    \* self.max_history
    added,          \* ghost: every turn ever passed to add_turn, in call order
    owners,         \* ghost: for each turn of self.history, the call that added it
    \* ---- ToolExecutor (tools/executor.py) ----
    handlers,       \* the names in self._handlers
    on_confirm_request, \* TRUE when a confirmation callback is registered
    blocked_commands,   \* self.config.blocked_commands
    exec_last,      \* ghost: what the last execute call did, or NoExec
    classified,     \* ghost: the last direct classify_risk call and its result
    shell,          \* tools/shell.py: the run_shell call in progress and its process
    \* ---- Orchestrator (core/orchestrator.py) ----
    max_tool_iterations,    \* self.config.llm.max_tool_iterations
    memory_enabled, \* TRUE when learning_memory and capture_log are not None
    skills,         \* self.skills, the names of the loaded skills
    orch,           \* the locals of the process invocation in progress, with ghosts
    other,          \* a second process invocation on the same orchestrator
    \* ---- VoicePipeline (voice/pipeline.py), the module global of server/app.py ----
    state,          \* self.state
    audio_buffer,   \* self._audio_buffer, a sequence of arrays (sequences of frames)
    callbacks,      \* the connection whose handler the on_* callbacks call, or NoConn
    \* ---- AudioHandler (server/audio_handler.py), one per connection ----
    conn,           \* per connection: where its task is, its PTT fields, its locals
    audio_out,      \* the last array of synthesized samples converted for the client
    last            \* ghost: what the last step did (a feed_audio call, an entry to
                    \* SPEAKING, a finished call with the events it reported), or NoLast

vadVars == <<vad, start_frames, end_frames, vad_result, run>>
ctxVars == <<history, max_history, added, owners>>
execVars == <<handlers, on_confirm_request, blocked_commands, exec_last, classified, shell>>
orchVars == <<max_tool_iterations, memory_enabled, skills, orch, other>>
pipeVars == <<state, audio_buffer, callbacks, conn, audio_out, last>>
vars == <<vadVars, ctxVars, execVars, orchVars, pipeVars>>

\* ------------------------------------------------------------------ bounds
MaxFrames == 3      \* start_frames and end_frames range over 1..MaxFrames
MaxRun == 4         \* longest run of equal frames fed to the segmenter
MaxHist == 2        \* max_history ranges over 0..MaxHist
MaxAdds == 5        \* number of add_turn calls on one context store
MaxIter == 2        \* max_tool_iterations ranges over 0..MaxIter
MaxProcess == 2     \* number of Orchestrator.process invocations in one run
MaxBuf == 4         \* arrays held by the pipeline's audio buffer
MaxPtt == 1         \* chunks held by a handler's push-to-talk buffer
MaxPttLong == 2     \* the same, in the specification of the push-to-talk protocol
MaxTimeout == 2     \* the timeout argument of run_shell ranges over 0..MaxTimeout
SampleDen == 4      \* samples are the multiples of 1 / SampleDen in [-1, 1]
MaxSamples == 2     \* samples in one synthesized array
MaxOutput == 2      \* characters a shell process writes to each of its pipes

\* ------------------------------------------------------------------ helpers
Min(a, b) == IF a < b THEN a ELSE b
Max(a, b) == IF a > b THEN a ELSE b

\* Python's seq[i:] for any integer i (a negative i counts from the end).
PySliceFrom(s, i) ==
    LET n == Len(s)
        start == IF i < 0 THEN Max(n + i, 0) ELSE Min(i, n)
    IN  SubSeq(s, start + 1, n)

\* The last n elements of s (all of s when it is shorter; none when n = 0).
LastN(s, n) == SubSeq(s, Max(Len(s) - n, 0) + 1, Len(s))

\* ------------------------------------------------------------------ SileroVAD
NoResult == [is_speech |-> FALSE, speech_start |-> FALSE, speech_end |-> FALSE, fresh |-> TRUE]

VadInit == [speech_frames |-> 0, silence_frames |-> 0, in_speech |-> FALSE]

RunInit == [speech |-> 0, silence |-> 0, was_in_speech |-> FALSE, open |-> FALSE,
            dirty |-> FALSE, heard |-> << >>, lost |-> FALSE, closed |-> FALSE]

\* A plausible slip: the start test written with > instead of >=.
process_chunk_late(v, is_speech, sf, ef) ==
    IF is_speech
    THEN LET n == v.speech_frames + 1
             start == ~v.in_speech /\ n > sf
         IN  [vad |-> [speech_frames |-> n, silence_frames |-> 0,
                       in_speech |-> IF start THEN TRUE ELSE v.in_speech],
              speech_start |-> start, speech_end |-> FALSE]
    ELSE LET n == v.silence_frames + 1
             stop == v.in_speech /\ n >= ef
         IN  [vad |-> [speech_frames |-> 0, silence_frames |-> n,
                       in_speech |-> IF stop THEN FALSE ELSE v.in_speech],
              speech_start |-> FALSE, speech_end |-> stop]

\* A plausible slip: the start test made without `not self._in_speech`.
process_chunk_restarting(v, is_speech, sf, ef) ==
    IF is_speech
    THEN LET n == v.speech_frames + 1
             start == n >= sf
         IN  [vad |-> [speech_frames |-> n, silence_frames |-> 0,
                       in_speech |-> IF start THEN TRUE ELSE v.in_speech],
              speech_start |-> start, speech_end |-> FALSE]
    ELSE LET n == v.silence_frames + 1
             stop == v.in_speech /\ n >= ef
         IN  [vad |-> [speech_frames |-> 0, silence_frames |-> n,
                       in_speech |-> IF stop THEN FALSE ELSE v.in_speech],
              speech_start |-> FALSE, speech_end |-> stop]

\* SileroVAD.process_chunk on a frame whose probability compares to the
\* threshold as is_speech: the new counters and the two reported edges.
process_chunk(v, is_speech, sf, ef) ==
    IF is_speech
    THEN LET n == v.speech_frames + 1
             start == ~v.in_speech /\ n >= sf
         IN  [vad |-> [speech_frames |-> n, silence_frames |-> 0,
                       in_speech |-> IF start THEN TRUE ELSE v.in_speech],
              speech_start |-> start, speech_end |-> FALSE]
    ELSE LET n == v.silence_frames + 1
             stop == v.in_speech /\ n >= ef
         IN  [vad |-> [speech_frames |-> 0, silence_frames |-> n,
                       in_speech |-> IF stop THEN FALSE ELSE v.in_speech],
              speech_start |-> FALSE, speech_end |-> stop]

\* A plausible slip: reset zeroes the counters and forgets in_speech.
vad_reset_counters_only(v) == [VadInit EXCEPT !.in_speech = v.in_speech]

\* SileroVAD.reset
vad_reset(v) == VadInit

\* Ghost: the runs of consecutive equal frames actually fed since the last
\* reset (dirty: that reset, made on the segmenter alone, found it in speech).
RunAfter(r, v, is_speech) ==
    IF is_speech
    THEN [r EXCEPT !.speech = @ + 1, !.silence = 0, !.was_in_speech = v.in_speech]
    ELSE [r EXCEPT !.speech = 0, !.silence = @ + 1, !.was_in_speech = v.in_speech]

\* Ghost: whether the edges reported since the last reset leave a segment
\* open (a speech_start reported and no speech_end after it), and whether
\* a speech_end was among them (closed).
RunReported(r, speech_start, speech_end) ==
    [r EXCEPT !.open = speech_start \/ (@ /\ ~speech_end),
              !.closed = @ \/ speech_end]

\* Ghost: the frames feed_audio has passed to the segmenter since the frame
\* that reported the speech_start of the open segment, that frame included
\* (heard), as long as the pipeline kept every one of them; lost: it
\* dropped one.
RunHeard(r, f, speech_start, kept) ==
    IF speech_start THEN [r EXCEPT !.heard = <<f>>, !.lost = FALSE]
    ELSE IF ~r.open THEN r
    ELSE IF kept /\ ~r.lost THEN [r EXCEPT !.heard = Append(@, f)]
    ELSE [r EXCEPT !.heard = << >>, !.lost = TRUE]

\* The frames the bounds allow: no run of equal frames longer than MaxRun.
FrameAllowed(v, is_speech) ==
    IF is_speech THEN v.speech_frames < MaxRun ELSE v.silence_frames < MaxRun

VadProcessChunk(is_speech) ==
    /\ FrameAllowed(vad, is_speech)
    /\ LET r == process_chunk(vad, is_speech, start_frames, end_frames)
       IN  /\ vad' = r.vad
           /\ vad_result' = [is_speech |-> is_speech, speech_start |-> r.speech_start,
                             speech_end |-> r.speech_end, fresh |-> FALSE]
    /\ run' = LET r == process_chunk(vad, is_speech, start_frames, end_frames)
              IN  RunReported(RunAfter(run, vad, is_speech), r.speech_start, r.speech_end)
    /\ UNCHANGED <<start_frames, end_frames, ctxVars, execVars, orchVars, pipeVars>>

VadReset ==
    /\ vad' = vad_reset(vad)
    /\ run' = [RunInit EXCEPT !.dirty = vad.in_speech]
    /\ vad_result' = NoResult
    /\ UNCHANGED <<start_frames, end_frames, ctxVars, execVars, orchVars, pipeVars>>

\* ------------------------------------------------------------------ ContextManager
Roles == {"user", "assistant"}
Contents == {"a", "b"}
Turns == [role : Roles, content : Contents]

\* ContextManager.add_turn: append, then keep history[-(max_history * 2):]
\* when the list is longer than max_history * 2.
\* A plausible slip: max_history taken as a number of turns, not of pairs.
add_turn_counting_turns(h, m, turn) ==
    LET h1 == Append(h, turn)
    IN  IF Len(h1) > m THEN PySliceFrom(h1, -m) ELSE h1

add_turn(h, m, turn) ==
    LET h1 == Append(h, turn)
    IN  IF Len(h1) > m * 2 THEN PySliceFrom(h1, -(m * 2)) ELSE h1

\* ContextManager.get_messages: one {"role", "content"} dict per turn, in order.
get_messages(h) == [i \in 1..Len(h) |-> [role |-> h[i].role, content |-> h[i].content]]

CtxAddTurn ==
    /\ Len(added) < MaxAdds
    /\ \E t \in Turns :
         /\ history' = add_turn(history, max_history, t)
         /\ added' = Append(added, t)
         /\ owners' = add_turn(owners, max_history, [by |-> "add_turn", n |-> 0])
    /\ UNCHANGED <<max_history, vadVars, execVars, orchVars, pipeVars>>


\* ------------------------------------------------------------------ ToolExecutor
\* Text is a sequence of one-character strings.
Ws == {" ", "\t"}

\* RISK_MAP
RISK_MAP ==
    [n \in {"read_file", "list_directory", "search_files", "list_processes",
            "web_search", "fetch_page", "ha_get_states", "ha_get_state",
            "ha_get_history"} |-> "safe"] @@
    [n \in {"write_file", "launch_app", "open_url", "ha_set_state",
            "ha_call_service", "run_shell"} |-> "moderate"] @@
    [n \in {"kill_process"} |-> "dangerous"]

\* A regular expression of DANGEROUS_PATTERNS as a sequence of items: a
\* literal character, one whitespace character (\s), or any number of them (\s*).
Lit(text) == [i \in 1..Len(text) |-> [t |-> "lit", c |-> text[i]]]
Ws1 == <<[t |-> "ws1", c |-> " "]>>
WsStar == <<[t |-> "ws*", c |-> " "]>>
WsPlus == Ws1 \o WsStar

DANGEROUS_PATTERNS ==
    << Lit(<<"r","m">>) \o WsPlus \o Lit(<<"-","r","f">>) \o WsPlus \o Lit(<<"/">>),
       Lit(<<"m","k","f","s">>),
       Lit(<<"d","d">>) \o WsPlus \o Lit(<<"i","f","=","/","d","e","v">>),
       Lit(<<"s","h","u","t","d","o","w","n">>),
       Lit(<<"r","e","b","o","o","t">>),
       Lit(<<":","(",")","{">>) \o WsStar \o Lit(<<":","|",":","&">>) \o WsStar
           \o Lit(<<"}",";",":">>),
       Lit(<<"c","h","m","o","d">>) \o WsPlus \o Lit(<<"-","R">>) \o WsPlus
           \o Lit(<<"7","7","7">>) \o WsPlus \o Lit(<<"/">>),
       Lit(<<">">>) \o WsStar \o Lit(<<"/","d","e","v","/","s","d","a">>),
       Lit(<<"r","m">>) \o WsPlus \o Lit(<<"-","r","f">>) \o WsPlus \o Lit(<<"~">>),
       Lit(<<"m","v">>) \o WsPlus \o Lit(<<"/">>),
       Lit(<<">">>) \o WsStar \o Lit(<<"/","e","t","c","/">>) >>

\* Whether items k.. of pat match text from position i on.
RECURSIVE MatchFrom(_, _, _, _)
MatchFrom(text, i, pat, k) ==
    IF k > Len(pat) THEN TRUE
    ELSE CASE pat[k].t = "lit" ->
                i <= Len(text) /\ text[i] = pat[k].c /\ MatchFrom(text, i + 1, pat, k + 1)
           [] pat[k].t = "ws1" ->
                i <= Len(text) /\ text[i] \in Ws /\ MatchFrom(text, i + 1, pat, k + 1)
           [] OTHER ->
                \/ MatchFrom(text, i, pat, k + 1)
                \/ i <= Len(text) /\ text[i] \in Ws /\ MatchFrom(text, i + 1, pat, k)

\* re.search(pattern, command)
re_search(pat, text) == \E i \in 1..(Len(text) + 1) : MatchFrom(text, i, pat, 1)

\* Python's `sub in text` on strings.
str_in(sub, text) ==
    \E i \in 0..(Len(text) - Len(sub)) : SubSeq(text, i + 1, i + Len(sub)) = sub

\* dict.get(key, default)
dict_get(d, key, default) == IF key \in DOMAIN d THEN d[key] ELSE default

\* A plausible slip: the dynamic upgrade of run_shell left out.
classify_risk_static(tool_call, blocked) ==
    dict_get(RISK_MAP, tool_call.name, "moderate")

\* A plausible slip: a classification that remembers the last execute call.
classify_risk_sticky(tool_call, blocked) ==
    IF exec_last.called /\ exec_last.risk = "dangerous"
    THEN "dangerous"
    ELSE classify_risk_static(tool_call, blocked)

\* ToolExecutor.classify_risk
classify_risk(tool_call, blocked) ==
    LET base_risk == dict_get(RISK_MAP, tool_call.name, "moderate")
        command == dict_get(tool_call.args, "command", << >>)
    IN  IF tool_call.name = "run_shell"
           /\ \/ \E b \in 1..Len(blocked) : str_in(blocked[b], command)
              \/ \E p \in 1..Len(DANGEROUS_PATTERNS) : re_search(DANGEROUS_PATTERNS[p], command)
        THEN "dangerous"
        ELSE base_risk

TRUNCATED == <<"\n...(truncated)">>
CANCELLED == <<"Operation cancelled by user.">>

\* A plausible slip: every result labelled with one and the same call id.
ToolResult_fixed_id(id, content, is_error) ==
    [tool_call_id |-> "c1", content |-> content, is_error |-> is_error]

\* ToolResult(tool_call_id, content, is_error=False)
ToolResult(id, content, is_error) ==
    [tool_call_id |-> id, content |-> content, is_error |-> is_error]

\* A plausible slip: the cut made one character late.
truncate_output_late(out, max_chars) ==
    IF Len(out) > max_chars THEN SubSeq(out, 1, max_chars + 1) \o TRUNCATED ELSE out

\* result[: output_max_chars] + "\n...(truncated)" for a result longer than
\* output_max_chars, the result itself otherwise.
truncate_output(out, max_chars) ==
    IF Len(out) > max_chars THEN SubSeq(out, 1, max_chars) \o TRUNCATED ELSE out

\* A plausible slip: the exception reported as an ordinary result.
handler_error_unflagged(id, exc, msg) == ToolResult(id, <<msg>>, FALSE)

\* The ToolResult of the `except Exception as e` branch:
\* f"Error: {type(e).__name__}: {e}", is_error=True.
handler_error(id, exc, msg) == ToolResult(id, <<"Error: ", exc, ": ", msg>>, TRUE)

\* A plausible slip: the risk gate placed before the handler lookup.
execute_gating_first(tool_call, hs, confirm, blocked, max_chars, answer, outcome) ==
    LET risk == classify_risk(tool_call, blocked)
        asked == risk = "dangerous" /\ confirm
    IN  IF asked /\ ~answer
        THEN [result |-> ToolResult(tool_call.id, CANCELLED, FALSE),
              risk |-> risk, confirm_awaited |-> TRUE, handler_invoked |-> FALSE]
        ELSE IF tool_call.name \notin hs
        THEN [result |-> ToolResult(tool_call.id, <<"Unknown tool: ", tool_call.name>>, TRUE),
              risk |-> "none", confirm_awaited |-> asked, handler_invoked |-> FALSE]
        ELSE [result |->
                IF outcome.kind = "return"
                THEN ToolResult(tool_call.id, truncate_output(outcome.out, max_chars), FALSE)
                ELSE handler_error(tool_call.id, outcome.exc, outcome.msg),
              risk |-> risk, confirm_awaited |-> asked, handler_invoked |-> TRUE]

\* A plausible slip: the denial of the confirmation callback not honoured.
execute_ignoring_denial(tool_call, hs, confirm, blocked, max_chars, answer, outcome) ==
    IF tool_call.name \notin hs
    THEN [result |-> ToolResult(tool_call.id, <<"Unknown tool: ", tool_call.name>>, TRUE),
          risk |-> "none", confirm_awaited |-> FALSE, handler_invoked |-> FALSE]
    ELSE LET risk == classify_risk(tool_call, blocked)
             asked == risk = "dangerous" /\ confirm
         IN  [result |-> IF outcome.kind = "return"
                         THEN ToolResult(tool_call.id, outcome.out, FALSE)
                         ELSE ToolResult(tool_call.id,
                                  <<"Error: ", outcome.exc, ": ", outcome.msg>>, TRUE),
              risk |-> risk, confirm_awaited |-> asked, handler_invoked |-> TRUE]

\* ToolExecutor.execute. answer is what the confirmation callback returns if
\* it is awaited; outcome is what the handler does if it is invoked. The
\* result, and which of the two were actually called.
execute(tool_call, hs, confirm, blocked, max_chars, answer, outcome) ==
    IF tool_call.name \notin hs
    THEN [result |-> ToolResult(tool_call.id, <<"Unknown tool: ", tool_call.name>>, TRUE),
          risk |-> "none", confirm_awaited |-> FALSE, handler_invoked |-> FALSE]
    ELSE LET risk == classify_risk(tool_call, blocked)
             asked == risk = "dangerous" /\ confirm
         IN  IF asked /\ ~answer
             THEN [result |-> ToolResult(tool_call.id, CANCELLED, FALSE),
                   risk |-> risk, confirm_awaited |-> TRUE, handler_invoked |-> FALSE]
             ELSE [result |->
                     IF outcome.kind = "return"
                     THEN ToolResult(tool_call.id,
                              truncate_output(outcome.out, max_chars), FALSE)
                     ELSE handler_error(tool_call.id, outcome.exc, outcome.msg),
                   risk |-> risk, confirm_awaited |-> asked, handler_invoked |-> TRUE]

\* The tools register_all_tools registers: the core tools, and the Home
\* Assistant tools when enabled.
CoreTools ==
    {"run_shell", "read_file", "write_file", "list_directory", "search_files",
     "list_processes", "kill_process", "launch_app", "open_url", "web_search",
     "fetch_page"}
HomeAssistantTools ==
    {"ha_get_states", "ha_get_state", "ha_set_state", "ha_call_service", "ha_get_history"}

\* The tool calls an LLM response is drawn from.
CmdEcho == <<"e","c","h","o"," ","h","i">>
CmdRmRoot == <<"r","m"," ","-","r","f","\t"," ","/">>
CmdRmGlued == <<"r","m","-","r","f","/">>
CmdSudo == <<"s","u","d","o"," ","l","s">>
Commands == {CmdEcho, CmdRmRoot, CmdRmGlued, CmdSudo}
NoArgs == << >>
CallIds == {"c1", "c2"}
ToolCalls ==
    [id : CallIds, name : {"run_shell"}, args : [{"command"} -> Commands]]
    \cup [id : CallIds,
          name : {"run_shell", "read_file", "write_file", "kill_process",
                  "ha_get_state", "some_future_tool"},
          args : {NoArgs}]

\* The block-lists the configuration is drawn from.
BlockLists == {<< >>, << <<"s","u","d","o">> >>}

\* output_max_chars of the model's configuration (4096 in the defaults).
output_max_chars == 2

HandlerOutcomes ==
    [kind : {"return"}, out : {<<"o","u">>, <<"o","u","t">>, <<"o","u","t","p">>}]
    \cup [kind : {"raise"}, exc : {"ValueError"}, msg : {"bad"}]

NoExec == [called |-> FALSE]

\* The calls classify_risk is given directly: every name of the table and
\* one it does not have, each without arguments and with every command of
\* the model as its "command" argument, a destructive pattern in the middle
\* of a command included.
CmdRedirect == <<"a", ">", "/", "e", "t", "c", "/", "b">>
ClassifyCalls ==
    [id : {"c1"},
     name : DOMAIN RISK_MAP \cup {"some_future_tool"},
     args : {NoArgs} \cup [{"command"} -> Commands \cup {CmdRedirect}]]

\* The execute calls made between them.
RiskExecCalls ==
    { [id |-> "c2", name |-> "kill_process", args |-> NoArgs],
      [id |-> "c2", name |-> "run_shell", args |-> [command |-> CmdSudo]],
      [id |-> "c2", name |-> "read_file", args |-> NoArgs] }

NoClassified == [called |-> FALSE]

\* register_all_tools(executor, config) on an executor with no handlers.
ExecRegisterAll ==
    /\ handlers = {}
    /\ \E ha \in BOOLEAN :
         handlers' = IF ha THEN CoreTools \cup HomeAssistantTools ELSE CoreTools
    /\ UNCHANGED <<on_confirm_request, blocked_commands, exec_last, classified, shell,
                   vadVars, ctxVars, orchVars, pipeVars>>

\* classify_risk(tool_call), called directly.
ExecClassify ==
    /\ \E tc \in ClassifyCalls :
         classified' = [called |-> TRUE, tool_call |-> tc,
                        risk |-> classify_risk(tc, blocked_commands)]
    /\ UNCHANGED <<handlers, on_confirm_request, blocked_commands, exec_last, shell,
                   vadVars, ctxVars, orchVars, pipeVars>>

\* execute(tool_call), for a call of `calls`.
ExecExecuteOf(calls) ==
    \E tc \in calls, answer \in BOOLEAN, outcome \in HandlerOutcomes :
        LET r == execute(tc, handlers, on_confirm_request, blocked_commands,
                         output_max_chars, answer, outcome)
        IN  /\ exec_last' = [called |-> TRUE, tool_call |-> tc,
                             registered |-> tc.name \in handlers,
                             confirm |-> on_confirm_request,
                             answer |-> answer, outcome |-> outcome,
                             risk |-> r.risk, result |-> r.result,
                             confirm_awaited |-> r.confirm_awaited,
                             handler_invoked |-> r.handler_invoked]
            /\ UNCHANGED <<handlers, on_confirm_request, blocked_commands, classified, shell,
                           vadVars, ctxVars, orchVars, pipeVars>>

ExecExecute == ExecExecuteOf(ToolCalls)

\* The owner of the executor assigns or clears on_confirm_request.
ExecSetConfirm ==
    /\ on_confirm_request' = ~on_confirm_request
    /\ UNCHANGED <<handlers, blocked_commands, exec_last, classified, shell,
                   vadVars, ctxVars, orchVars, pipeVars>>

\* ------------------------------------------------------------------ run_shell
\* timeout: int = 30, scaled to the bounds.
DefaultShellTimeout == 2

\* No run_shell call yet.
ShellIdle == [pc |-> "idle"]

\* The run_shell calls of the model: a harmless and a dangerous command,
\* without a timeout argument and with every timeout of the bounds.
ShellCalls ==
    [id : {"c1"}, name : {"run_shell"}, args : [{"command"} -> {CmdEcho, CmdSudo}]]
    \cup [id : {"c1"}, name : {"run_shell"},
          args : [command : {CmdEcho, CmdSudo}, timeout : 0..MaxTimeout]]

\* f"Command timed out after {timeout}s", one text per timeout of the model.
timeout_message(timeout) ==
    CASE timeout = 0 -> <<"Command timed out after 0s">>
      [] timeout = 1 -> <<"Command timed out after 1s">>
      [] timeout = 2 -> <<"Command timed out after 2s">>
      [] timeout = 3 -> <<"Command timed out after 3s">>
      [] OTHER -> <<"Command timed out after Ns">>

\* A plausible slip: the timeout reported without killing the process.
run_shell_on_timeout_no_kill(sh) ==
    [sh EXCEPT !.pc = "returned", !.returned = timeout_message(sh.timeout)]

\* The `except TimeoutError` branch of run_shell: proc.kill() and the
\* message; what the pipes hold is dropped with the cancelled communicate().
run_shell_on_timeout(sh) ==
    [sh EXCEPT !.pc = "returned", !.proc = "killed",
               !.returned = timeout_message(sh.timeout)]

\* The text run_shell returns when communicate() returns stdout and stderr.
run_shell_output(stdout, stderr) ==
    LET output == stdout \o (IF stderr # << >>
                             THEN (IF stdout # << >> THEN <<"\n">> ELSE << >>) \o stderr
                             ELSE << >>)
    IN  IF output # << >> THEN output ELSE <<"(no output)">>

\* Ghost: the execute call that has just returned result r.
ExecReport(tc, answer, outcome, r) ==
    [called |-> TRUE, tool_call |-> tc, registered |-> tc.name \in handlers,
     confirm |-> on_confirm_request, answer |-> answer, outcome |-> outcome,
     risk |-> r.risk, result |-> r.result, confirm_awaited |-> r.confirm_awaited,
     handler_invoked |-> r.handler_invoked]

\* execute(tool_call) for a run_shell call, up to `await asyncio.wait_for(...)`
\* in run_shell; a call the user does not confirm returns without a process.
ShellCall ==
    /\ shell.pc \in {"idle", "returned"}
    /\ \E tc \in ShellCalls, answer \in BOOLEAN :
         LET outcome == [kind |-> "return", out |-> << >>]
             r == execute(tc, handlers, on_confirm_request, blocked_commands,
                          output_max_chars, answer, outcome)
         IN  IF r.handler_invoked
             THEN /\ shell' = [pc |-> "communicate", proc |-> "running", tool_call |-> tc,
                               answer |-> answer,
                               timeout |-> dict_get(tc.args, "timeout", DefaultShellTimeout),
                               elapsed |-> 0, stdout |-> << >>, stderr |-> << >>,
                               returned |-> << >>]
                  /\ exec_last' = NoExec
             ELSE /\ shell' = ShellIdle
                  /\ exec_last' = ExecReport(tc, answer, outcome, r)
    /\ UNCHANGED <<handlers, on_confirm_request, blocked_commands, classified,
                   vadVars, ctxVars, orchVars, pipeVars>>

\* The process writes a character to its stdout or its stderr pipe.
ShellWrite ==
    /\ shell.pc = "communicate"
    /\ \/ /\ Len(shell.stdout) < MaxOutput
          /\ shell' = [shell EXCEPT !.stdout = Append(@, "o")]
       \/ /\ Len(shell.stderr) < MaxOutput
          /\ shell' = [shell EXCEPT !.stderr = Append(@, "e")]
    /\ UNCHANGED <<handlers, on_confirm_request, blocked_commands, exec_last, classified,
                   vadVars, ctxVars, orchVars, pipeVars>>

\* A second passes while the process runs.
ShellTick ==
    /\ shell.pc = "communicate"
    /\ shell.elapsed < shell.timeout
    /\ shell' = [shell EXCEPT !.elapsed = @ + 1]
    /\ UNCHANGED <<handlers, on_confirm_request, blocked_commands, exec_last, classified,
                   vadVars, ctxVars, orchVars, pipeVars>>

\* run_shell returns sh.returned to execute, which returns its ToolResult.
ShellReturn(sh) ==
    LET outcome == [kind |-> "return", out |-> sh.returned]
        r == execute(sh.tool_call, handlers, on_confirm_request, blocked_commands,
                     output_max_chars, sh.answer, outcome)
    IN  /\ shell' = sh
        /\ exec_last' = ExecReport(sh.tool_call, sh.answer, outcome, r)

\* The process exits before the timeout: communicate() returns what it wrote.
ShellExit ==
    /\ shell.pc = "communicate"
    /\ shell.elapsed < shell.timeout
    /\ ShellReturn([shell EXCEPT !.pc = "returned", !.proc = "exited",
                                 !.returned = run_shell_output(shell.stdout, shell.stderr)])
    /\ UNCHANGED <<handlers, on_confirm_request, blocked_commands, classified,
                   vadVars, ctxVars, orchVars, pipeVars>>

\* The timeout expires with the process still running: wait_for cancels
\* communicate() and raises TimeoutError.
ShellTimeout ==
    /\ shell.pc = "communicate"
    /\ shell.elapsed = shell.timeout
    /\ ShellReturn(run_shell_on_timeout(shell))
    /\ UNCHANGED <<handlers, on_confirm_request, blocked_commands, classified,
                   vadVars, ctxVars, orchVars, pipeVars>>


\* ------------------------------------------------------------------ Orchestrator
\* result: dict = {}
EmptyResult == [k \in {} |-> "None"]

NoResponse == [returned |-> FALSE]

\* Response(text, tool_calls_made, latency_ms); the latency values are not modelled.
Response(text, made) == [returned |-> TRUE, text |-> text, tool_calls_made |-> made]

OrchIdle(n) ==
    [pc |-> "idle", n |-> n, user_input |-> "", memory_context |-> FALSE,
     skill |-> "", messages |-> << >>, iter |-> 0, result |-> EmptyResult,
     pending |-> << >>, tool_calls_made |-> << >>, llm_calls |-> 0,
     response |-> NoResponse, raised_by |-> "", mem_add |-> "skipped",
     capture |-> "skipped",
     \* ghosts: the length of the message sequence built in step 4, every tool
     \* call the LLM has returned so far, the last execute call and its result,
     \* every call handed to executor.execute so far
     base |-> 0, requested |-> << >>, exec |-> NoExec, executed |-> << >>,
     \* ghost: self.context.history when the invocation began
     before |-> << >>]

\* The text inputs, and what the external collaborators may answer.
UserInputs == {"a"}
MemorySearchOutcomes == {"none", "some", "raise"}
SkillName == "weather"
SkillReplies == {"none", "WEATHER", "junk", "raise"}
TcKill == [id |-> "c1", name |-> "kill_process", args |-> NoArgs]
TcEcho == [id |-> "c2", name |-> "run_shell", args |-> [command |-> CmdEcho]]
TcFuture == [id |-> "c1", name |-> "some_future_tool", args |-> NoArgs]
LLMResults ==
    { [content |-> "a", tool_calls |-> << >>],
      [content |-> "None", tool_calls |-> << >>],
      [content |-> "None", tool_calls |-> <<TcKill>>],
      [content |-> "b", tool_calls |-> <<TcEcho, TcFuture>>] }
OrchHandlerOutcomes ==
    { [kind |-> "return", out |-> <<"o">>],
      [kind |-> "raise", exc |-> "ValueError", msg |-> "bad"] }

\* str.lower on the replies of the model.
Lower(text) == IF text = "WEATHER" THEN "weather" ELSE text

\* select_skill after chat_simple has returned reply: the name of the
\* matched skill, or "" for None.
select_skill_match(reply, sk) ==
    LET result == Lower(reply)
    IN  IF result = "none" THEN ""
        ELSE IF \E i \in 1..Len(sk) : Lower(sk[i]) = result THEN result ELSE ""

\* json.dumps, kept distinct from its argument.
json_dumps(x) == [json |-> x]

\* Steps 3 and 4: the system prompt, the context turns, the new user input.
build_messages(memory_context, skill, h, user_input) ==
    << [role |-> "system", content |-> [memory |-> memory_context, skill |-> skill]] >>
    \o get_messages(h)
    \o << [role |-> "user", content |-> user_input] >>

\* The two messages appended for one executed tool call.
tool_messages(tc, tool_result) ==
    << [role |-> "assistant", content |-> "None",
        tool_calls |-> << [id |-> tc.id, type |-> "function",
                           function |-> [name |-> tc.name,
                                         arguments |-> json_dumps(tc.args)]] >>],
       [role |-> "tool", tool_call_id |-> tc.id, content |-> tool_result.content] >>

\* A plausible slip: the "or" default left out, so that a missing content
\* stays None.
final_text_of_without_default(result) == dict_get(result, "content", "None")

\* A plausible slip: the final text read under a key the result does not have.
final_text_of_wrong_key(result) ==
    LET c == dict_get(result, "text", "None")
    IN  IF c = "None" THEN "" ELSE c

\* result.get("content") or ""
final_text_of(result) ==
    LET c == dict_get(result, "content", "None")
    IN  IF c = "None" THEN "" ELSE c

\* A plausible slip: the loop written with range(max_iterations + 1).
loop_continues_once_more(iter, max_iterations) == iter < max_iterations + 1

\* for _ in range(max_iterations): whether another iteration starts after
\* iter iterations.
loop_continues(iter, max_iterations) == iter < max_iterations

\* Step 7, long-term memory: written when there is a memory and a non-empty
\* final text; an exception of the write is swallowed.
memory_add_outcome(enabled, final_text, mem_ok) ==
    IF enabled /\ final_text # ""
    THEN (IF mem_ok THEN "ok" ELSE "failed")
    ELSE "skipped"

\* A plausible slip: no capture-log write after a failed memory write.
capture_log_outcome_after_memory(enabled, mem_add, cap_ok) ==
    IF enabled /\ mem_add # "failed"
    THEN (IF cap_ok THEN "ok" ELSE "failed")
    ELSE "skipped"

\* Step 7, capture log: written when there is a capture log, whatever the
\* memory write (mem_add) did; an exception of the write is swallowed.
capture_log_outcome(enabled, mem_add, cap_ok) ==
    IF enabled
    THEN (IF cap_ok THEN "ok" ELSE "failed")
    ELSE "skipped"

\* A plausible slip: a call that was made before is not recorded again.
record_tool_call_once(made, tc) ==
    IF \E i \in 1..Len(made) : made[i] = tc THEN made ELSE Append(made, tc)

\* tool_calls_made.append(tc)
record_tool_call(made, tc) == Append(made, tc)

\* A plausible slip: the batch worked through from its end.
next_tool_call_last(pending) == pending[Len(pending)]

\* for tc in result["tool_calls"]: the call executed next.
next_tool_call(pending) == Head(pending)

\* A plausible slip: the awaits of process wrapped in a handler that returns
\* an empty Response.
raised_in_swallowed(o, by) ==
    [o EXCEPT !.pc = "returned", !.raised_by = by, !.response = Response("", o.tool_calls_made)]

\* An exception raised in step `by` leaves process: nothing catches it.
raised_in(o, by) == [o EXCEPT !.pc = "raised", !.raised_by = by]

\* Steps 6 and 7 and the return, from the locals o: the context update, the
\* best-effort writes (mem_ok, cap_ok: whether each write succeeds), the Response.
OrchFinish(o, mem_ok, cap_ok) ==
    LET final_text == final_text_of(o.result)
        mem_add == memory_add_outcome(memory_enabled, final_text, mem_ok)
    IN  /\ history' = add_turn(add_turn(history, max_history,
                                        [role |-> "user", content |-> o.user_input]),
                               max_history,
                               [role |-> "assistant", content |-> final_text])
        /\ added' = added \o << [role |-> "user", content |-> o.user_input],
                                [role |-> "assistant", content |-> final_text] >>
        /\ owners' = add_turn(add_turn(owners, max_history, [by |-> "process", n |-> o.n]),
                              max_history, [by |-> "process", n |-> o.n])
        /\ orch' = [o EXCEPT
                      !.pc = "returned",
                      !.mem_add = mem_add,
                      !.capture = capture_log_outcome(memory_enabled, mem_add, cap_ok),
                      !.response = Response(final_text, o.tool_calls_made)]

\* After step 4: enter the loop, or finish at once when range() is empty.
OrchEnterLoop(o, mem_ok, cap_ok) ==
    IF loop_continues(0, max_tool_iterations)
    THEN /\ orch' = [o EXCEPT !.pc = "llm"]
         /\ UNCHANGED <<history, added, owners>>
    ELSE OrchFinish(o, mem_ok, cap_ok)

\* process is called: step 1, then step 2 up to the await of chat_simple
\* (select_skill returns None without a call when there are no skills).
OrchProcess ==
    /\ orch.pc \in {"idle", "returned", "raised"}
    /\ orch.n < MaxProcess
    /\ Len(added) + 2 <= MaxAdds
    /\ \E user_input \in UserInputs, found \in MemorySearchOutcomes,
          mem_ok \in BOOLEAN, cap_ok \in BOOLEAN :
         LET o0 == [OrchIdle(orch.n + 1) EXCEPT !.user_input = user_input,
                                                !.before = history]
         IN  IF memory_enabled /\ found = "raise"
             THEN /\ orch' = raised_in(o0, "memory_search")
                  /\ UNCHANGED <<history, added, owners>>
             ELSE LET o1 == [o0 EXCEPT !.memory_context = memory_enabled /\ found = "some"]
                  IN  IF skills # << >>
                      THEN /\ orch' = [o1 EXCEPT !.pc = "skill"]
                           /\ UNCHANGED <<history, added, owners>>
                      ELSE OrchEnterLoop(
                               [o1 EXCEPT
                                   !.messages = build_messages(o1.memory_context, "",
                                                               history, user_input),
                                   !.base = Len(get_messages(history)) + 2],
                               mem_ok, cap_ok)
    /\ UNCHANGED <<max_history, max_tool_iterations, memory_enabled, skills, other, vadVars, execVars, pipeVars>>

\* chat_simple returns (or raises) in select_skill; steps 3 and 4 follow.
OrchSkillReply ==
    /\ orch.pc = "skill"
    /\ \E reply \in SkillReplies, mem_ok \in BOOLEAN, cap_ok \in BOOLEAN :
         LET o0 == [orch EXCEPT !.llm_calls = @ + 1]
         IN  IF reply = "raise"
             THEN /\ orch' = raised_in(o0, "skill_select")
                  /\ UNCHANGED <<history, added, owners>>
             ELSE LET skill == select_skill_match(reply, skills)
                  IN  OrchEnterLoop(
                          [o0 EXCEPT !.skill = skill,
                                     !.messages = build_messages(o0.memory_context, skill,
                                                                 history, o0.user_input),
                                     !.base = Len(get_messages(history)) + 2],
                          mem_ok, cap_ok)
    /\ UNCHANGED <<max_history, max_tool_iterations, memory_enabled, skills, other, vadVars, execVars, pipeVars>>

\* llm.chat returns (or raises) in the loop: no tool calls ends the loop.
OrchLLMReply ==
    /\ orch.pc = "llm"
    /\ \E raises \in BOOLEAN, result \in LLMResults, mem_ok \in BOOLEAN, cap_ok \in BOOLEAN :
         LET o0 == [orch EXCEPT !.llm_calls = @ + 1, !.iter = @ + 1]
         IN  IF raises
             THEN /\ orch' = raised_in(o0, "llm_chat")
                  /\ UNCHANGED <<history, added, owners>>
             ELSE LET o1 == [o0 EXCEPT !.result = result,
                                       !.requested = @ \o result.tool_calls]
                  IN  IF result.tool_calls = << >>
                      THEN OrchFinish(o1, mem_ok, cap_ok)
                      ELSE /\ orch' = [o1 EXCEPT !.pc = "tool", !.pending = result.tool_calls]
                           /\ UNCHANGED <<history, added, owners>>
    /\ UNCHANGED <<max_history, max_tool_iterations, memory_enabled, skills, other, vadVars, execVars, pipeVars>>

\* executor.execute returns for the next tool call of the batch; after the
\* last one the loop goes on, or ends when the iterations are used up.
OrchToolDone ==
    /\ orch.pc = "tool"
    /\ \E answer \in BOOLEAN, outcome \in OrchHandlerOutcomes,
          mem_ok \in BOOLEAN, cap_ok \in BOOLEAN :
         LET tc == next_tool_call(orch.pending)
             r == execute(tc, handlers, on_confirm_request, blocked_commands,
                          output_max_chars, answer, outcome)
             o1 == [orch EXCEPT !.tool_calls_made = record_tool_call(@, tc),
                                !.executed = Append(@, tc),
                                !.messages = @ \o tool_messages(tc, r.result),
                                !.pending = Tail(@),
                                !.exec = [called |-> TRUE, tool_call |-> tc,
                                          answer |-> answer, outcome |-> outcome,
                                          result |-> r.result,
                                          confirm_awaited |-> r.confirm_awaited,
                                          handler_invoked |-> r.handler_invoked]]
         IN  IF o1.pending # << >>
             THEN /\ orch' = o1
                  /\ UNCHANGED <<history, added, owners>>
             ELSE IF loop_continues(o1.iter, max_tool_iterations)
                  THEN /\ orch' = [o1 EXCEPT !.pc = "llm"]
                       /\ UNCHANGED <<history, added, owners>>
                  ELSE OrchFinish(o1, mem_ok, cap_ok)
    /\ UNCHANGED <<max_history, max_tool_iterations, memory_enabled, skills, other, vadVars, execVars, pipeVars>>

\* A second invocation of process on the same orchestrator, made while the
\* first may be suspended (server/app.py hands the one orchestrator to every
\* connection). Of its locals only what reaches the context store is kept:
\* the user input, and whether it is suspended in one of its awaits (ghost
\* during: where the first invocation was when this one returned or raised).
OtherIdle(n) == [pc |-> "idle", n |-> n, user_input |-> "", during |-> "idle"]
OtherInputs == {"b"}
OtherOutcomes == {"c", "", "raise"}

\* process is called a second time and is suspended in its first await.
OtherProcess ==
    /\ other.pc \in {"idle", "returned", "raised"}
    /\ other.n < MaxProcess
    /\ \E user_input \in OtherInputs :
         other' = [OtherIdle(other.n + 1) EXCEPT !.pc = "awaiting",
                                                 !.user_input = user_input]
    /\ UNCHANGED <<max_tool_iterations, memory_enabled, skills, orch, ctxVars,
                   vadVars, execVars, pipeVars>>

\* The last await of the second invocation returns, or one of its LLM calls
\* raises: steps 6 and 7 run without an await between the two add_turn calls.
OtherReturns ==
    /\ other.pc = "awaiting"
    /\ \E outcome \in OtherOutcomes :
         IF outcome = "raise"
         THEN /\ other' = [other EXCEPT !.pc = "raised", !.during = orch.pc]
              /\ UNCHANGED <<history, added, owners>>
         ELSE /\ other' = [other EXCEPT !.pc = "returned", !.during = orch.pc]
              /\ history' = add_turn(add_turn(history, max_history,
                                              [role |-> "user", content |-> other.user_input]),
                                     max_history,
                                     [role |-> "assistant", content |-> outcome])
              /\ added' = added \o << [role |-> "user", content |-> other.user_input],
                                      [role |-> "assistant", content |-> outcome] >>
              /\ owners' = add_turn(add_turn(owners, max_history,
                                             [by |-> "other", n |-> other.n]),
                                    max_history, [by |-> "other", n |-> other.n])
    /\ UNCHANGED <<max_history, max_tool_iterations, memory_enabled, skills, orch,
                   vadVars, execVars, pipeVars>>

\* ------------------------------------------------------------------ VoicePipeline
Conns == {"k1", "k2"}
NoConn == "none"
Busy == {"processing", "speaking"}

\* A frame is the verdict the probability model gives on it.
Frames == {"s", "n"}
is_speech_frame(f) == f = "s"

\* What the external engines may answer ("raise": the call raises).
SttOutcomes == {"hello", " ", "", "raise"}
AgentOutcomes == {"ok", " ", "", "raise"}
TtsOutcomes == {"audio", "raise"}
TextInputs == {"hi", ""}

\* A plausible slip: the test for an empty text made without strip().
Strip_nothing(text) == text

\* str.strip on the texts of the model.
Strip(text) == IF text \in {"", " "} THEN "" ELSE text

\* np.concatenate on a sequence of arrays.
RECURSIVE Concatenate(_)
Concatenate(arrays) ==
    IF arrays = << >> THEN << >> ELSE Head(arrays) \o Concatenate(Tail(arrays))

\* One invocation of a registered observer.
Event(cb, type, content) == [cb |-> cb, type |-> type, content |-> content]

\* on_stream_chunk(StreamChunk(type, content)), if registered.
Chunk(type, content) ==
    IF callbacks = NoConn THEN << >> ELSE <<Event("on_stream_chunk", type, content)>>

\* on_transcript(transcript, False), if registered.
OnTranscript(transcript) ==
    IF callbacks = NoConn THEN << >> ELSE <<Event("on_transcript", "TRANSCRIPT", transcript)>>

\* on_audio_out(audio_bytes), if registered.
OnAudioOut ==
    IF callbacks = NoConn THEN << >> ELSE <<Event("on_audio_out", "AUDIO", "pcm")>>

\* What _set_state(new_state) reports, after assigning self.state.
set_state_events(new_state) ==
    IF callbacks = NoConn THEN << >>
    ELSE <<Event("on_state_change", "STATE", new_state),
           Event("on_stream_chunk", "STATE", new_state)>>

\* The fields of a connection: where its task is (pc) and for which call,
\* the handler's PTT fields, the audio handed to STT, and two ghosts of the
\* call in progress: the observer invocations so far and the stages that raised.
ConnClosed ==
    [pc |-> "closed", call |-> "none", ptt_active |-> FALSE, ptt_buffer |-> << >>,
     audio |-> << >>, log |-> << >>, failed |-> {}]

InFlight == {"stt", "agent", "tts", "text_agent", "text_tts"}

NoLast == [op |-> "none"]

\* A return to `await self.ws.receive()` in AudioHandler.run, after the
\* call made for the last message has finished.
BackToReceive(k) ==
    [k EXCEPT !.pc = "recv", !.call = "none", !.audio = << >>, !.log = << >>,
              !.failed = {},
              !.ptt_buffer = IF k.call = "process_push_to_talk" THEN << >> ELSE @]

\* Ghost: the report of the call of connection c that finishes with fields k
\* (at: the stage it finishes in; pre: the pipeline state when that stage returned).
Finished(c, k) ==
    [op |-> "done", conn |-> c, call |-> k.call, at |-> k.pc, pre |-> state,
     log |-> k.log, failed |-> k.failed]

\* A plausible slip: no return to IDLE after an agent-loop failure.
state_after_agent_failure_stuck == "processing"

\* The state set on the agent-loop failure path of _process_utterance.
state_after_agent_failure == "idle"

\* The call of connection c in progress finishes with fields k: its task
\* is back at `await self.ws.receive()`.
Complete(c, k) ==
    /\ conn' = [conn EXCEPT ![c] = BackToReceive(k)]
    /\ last' = Finished(c, k)

\* _process_utterance up to `await self.stt.transcribe(audio)`, entered by
\* connection c with `buffer` as the audio buffer and k as c's fields.
ProcessUtterance(c, k, buffer, report) ==
    LET entered == set_state_events("processing")
    IN  IF buffer = << >>
        THEN /\ state' = "idle"
             /\ audio_buffer' = buffer
             /\ UNCHANGED <<vad, vad_result, run>>
             /\ Complete(c, [k EXCEPT !.log = @ \o entered \o set_state_events("idle")])
        ELSE /\ state' = "processing"
             /\ audio_buffer' = << >>
             /\ vad' = vad_reset(vad)
             /\ vad_result' = NoResult
             /\ run' = RunInit
             /\ conn' = [conn EXCEPT ![c] =
                            [k EXCEPT !.pc = "stt", !.audio = Concatenate(buffer),
                                      !.log = @ \o entered]]
             /\ last' = [report EXCEPT !.log = @ \o entered]

\* A plausible slip: audio ignored while speaking only.
feed_audio_ignored_speaking_only(s) == s = "speaking"

\* feed_audio: the states in which the chunk is ignored.
feed_audio_ignored(s) == s = "speaking" \/ s = "processing"

\* VoicePipeline.feed_audio(chunk), called by the handler of connection c.
FeedAudio(c, k0, f) ==
    LET k == [k0 EXCEPT !.call = "feed_audio"]
        report == [op |-> "feed_audio", conn |-> c, pre |-> state, log |-> << >>]
    IN  IF feed_audio_ignored(state)
        THEN /\ conn' = [conn EXCEPT ![c] = BackToReceive(k)]
             /\ last' = report
             /\ UNCHANGED <<state, audio_buffer, vad, vad_result, run>>
        ELSE /\ FrameAllowed(vad, is_speech_frame(f))
             /\ Len(audio_buffer) < MaxBuf
             /\ LET r == process_chunk(vad, is_speech_frame(f), start_frames, end_frames)
                    state1 == IF r.speech_start THEN "listening" ELSE state
                    log1 == IF r.speech_start THEN set_state_events("listening") ELSE << >>
                    buffer0 == IF r.speech_start THEN << >> ELSE audio_buffer
                    buffer1 == IF state1 = "listening" THEN Append(buffer0, <<f>>) ELSE buffer0
                    k1 == [k EXCEPT !.log = @ \o log1]
                    heard1 == RunHeard(run, f, r.speech_start, state1 = "listening")
               IN  IF r.speech_end /\ state1 = "listening"
                   THEN ProcessUtterance(c, k1, buffer1,
                                         [op |-> "feed_audio", conn |-> c, pre |-> state,
                                          log |-> log1, heard |-> heard1.heard,
                                          lost |-> heard1.lost])
                   ELSE /\ state' = state1
                        /\ audio_buffer' = buffer1
                        /\ vad' = r.vad
                        /\ vad_result' = [is_speech |-> is_speech_frame(f),
                                          speech_start |-> r.speech_start,
                                          speech_end |-> r.speech_end, fresh |-> FALSE]
                        /\ run' = RunReported(RunAfter(heard1, vad, is_speech_frame(f)),
                                              r.speech_start, r.speech_end)
                        /\ conn' = [conn EXCEPT ![c] = BackToReceive(k1)]
                        /\ last' = [report EXCEPT !.log = log1]

\* stt.transcribe returns a transcript or raises, for connection c's utterance.
SttReturns(c) ==
    /\ conn[c].pc = "stt"
    /\ \E outcome \in SttOutcomes :
         LET k == conn[c]
             transcript == IF outcome = "raise" THEN "" ELSE outcome
             log1 == k.log
                     \o (IF outcome = "raise" THEN Chunk("TEXT", "I couldn't process the audio: error")
                         ELSE << >>)
                     \o OnTranscript(transcript)
                     \o Chunk("TRANSCRIPT", transcript)
             k1 == [k EXCEPT !.failed = IF outcome = "raise" THEN @ \cup {"stt"} ELSE @,
                             !.audio = << >>]
         IN  IF Strip(transcript) = ""
             THEN /\ state' = "idle"
                  /\ Complete(c, [k1 EXCEPT !.log = log1 \o Chunk("TEXT", "I didn't catch that. Could you repeat?")
                                                          \o set_state_events("idle")])
             ELSE /\ state' = state
                  /\ conn' = [conn EXCEPT ![c] = [k1 EXCEPT !.pc = "agent", !.log = log1]]
                  /\ last' = NoLast
    /\ UNCHANGED <<audio_buffer, callbacks, vadVars, ctxVars, execVars, orchVars, audio_out>>

\* orchestrator.process returns a Response or raises, in _process_utterance.
AgentReturns(c) ==
    /\ conn[c].pc = "agent"
    /\ \E outcome \in AgentOutcomes :
         LET k == conn[c]
         IN  IF outcome = "raise"
             THEN /\ state' = state_after_agent_failure
                  /\ Complete(c, [k EXCEPT
                         !.failed = @ \cup {"agent"},
                         !.log = @ \o Chunk("TEXT", "I'm having trouble connecting to my brain. Try again in a moment.")
                                   \o set_state_events(state_after_agent_failure)])
             ELSE LET log1 == k.log \o Chunk("TEXT", outcome)
                  IN  IF Strip(outcome) = ""
                      THEN /\ state' = "idle"
                           /\ Complete(c, [k EXCEPT !.log = log1 \o set_state_events("idle")])
                      ELSE /\ state' = "speaking"
                           /\ conn' = [conn EXCEPT ![c] =
                                         [k EXCEPT !.pc = "tts",
                                                   !.log = log1 \o set_state_events("speaking")]]
                           /\ last' = [op |-> "speaking", conn |-> c, pre |-> state,
                                       text |-> outcome]
    /\ UNCHANGED <<audio_buffer, callbacks, vadVars, ctxVars, execVars, orchVars, audio_out>>

\* tts.synthesize returns audio or raises, in _process_utterance.
TtsReturns(c) ==
    /\ conn[c].pc = "tts"
    /\ \E outcome \in TtsOutcomes :
         LET k == conn[c]
             log1 == k.log
                     \o (IF outcome = "raise" THEN Chunk("TEXT", "(Voice unavailable: error)")
                         ELSE OnAudioOut \o Chunk("AUDIO", "pcm"))
                     \o Chunk("THINKING", "latency")
                     \o set_state_events("idle")
         IN  /\ state' = "idle"
             /\ Complete(c, [k EXCEPT !.log = log1,
                                !.failed = IF outcome = "raise" THEN @ \cup {"tts"} ELSE @])
    /\ UNCHANGED <<audio_buffer, callbacks, vadVars, ctxVars, execVars, orchVars, audio_out>>

\* ------------------------------------------------------------------ AudioHandler
\* websocket_audio accepts a connection and constructs its AudioHandler,
\* whose _setup_callbacks rewires the callbacks of the shared pipeline.
Connect(c) ==
    /\ conn[c].pc = "closed"
    /\ conn' = [conn EXCEPT ![c] = [ConnClosed EXCEPT !.pc = "recv"]]
    /\ callbacks' = c
    /\ last' = NoLast
    /\ UNCHANGED <<state, audio_buffer, vadVars, ctxVars, execVars, orchVars, audio_out>>

\* run receives websocket.disconnect and leaves its loop.
Disconnect(c) ==
    /\ conn[c].pc = "recv"
    /\ conn' = [conn EXCEPT ![c] = ConnClosed]
    /\ last' = NoLast
    /\ UNCHANGED <<state, audio_buffer, callbacks, vadVars, ctxVars, execVars, orchVars, audio_out>>

\* A plausible slip: a start that keeps what an earlier start had buffered.
ptt_start_keeps_buffer(k) == [k EXCEPT !.ptt_active = TRUE]

\* self._ptt_active = True; self._ptt_buffer.clear()
ptt_start(k) == [k EXCEPT !.ptt_active = TRUE, !.ptt_buffer = << >>]

\* run receives a binary message: buffered while push-to-talk is active
\* (the buffer holding up to max_ptt chunks), fed to the pipeline otherwise.
ReceiveBytesUpTo(c, max_ptt) ==
    /\ conn[c].pc = "recv"
    /\ \E f \in Frames :
         LET k == conn[c]
         IN  IF k.ptt_active
             THEN /\ Len(k.ptt_buffer) < max_ptt
                  /\ conn' = [conn EXCEPT ![c] = [k EXCEPT !.ptt_buffer = Append(@, f)]]
                  /\ last' = [op |-> "ptt_bytes", conn |-> c, bytes |-> f,
                              buffer |-> k.ptt_buffer]
                  /\ UNCHANGED <<state, audio_buffer, vad, vad_result, run>>
             ELSE FeedAudio(c, k, f)
    /\ UNCHANGED <<callbacks, start_frames, end_frames, ctxVars, execVars, orchVars, audio_out>>

ReceiveBytes(c) == ReceiveBytesUpTo(c, MaxPtt)

\* _handle_control for {"type": "push_to_talk", "state": "start"}.
PushToTalkStart(c) ==
    /\ conn[c].pc = "recv"
    /\ conn' = [conn EXCEPT ![c] = ptt_start(@)]
    /\ last' = [op |-> "ptt_start", conn |-> c]
    /\ UNCHANGED <<state, audio_buffer, callbacks, vadVars, ctxVars, execVars, orchVars, audio_out>>

\* process_push_to_talk: self._audio_buffer = [audio_float]
ptt_audio_buffer(buffer, audio_float) == <<audio_float>>

\* _handle_control for {"type": "push_to_talk", "state": "stop"}: a
\* non-empty buffer goes to process_push_to_talk, which replaces the audio
\* buffer by the one array and processes the utterance.
PushToTalkStop(c) ==
    /\ conn[c].pc = "recv"
    /\ LET k == [conn[c] EXCEPT !.ptt_active = FALSE]
       IN  IF k.ptt_buffer # << >>
           THEN ProcessUtterance(c, [k EXCEPT !.call = "process_push_to_talk"],
                                 ptt_audio_buffer(audio_buffer, k.ptt_buffer),
                                 [op |-> "process_push_to_talk", conn |-> c,
                                  pre |-> state, log |-> << >>,
                                  buffer |-> k.ptt_buffer])
           ELSE /\ conn' = [conn EXCEPT ![c] = k]
                /\ last' = [op |-> "ptt_stop", conn |-> c, buffer |-> k.ptt_buffer]
                /\ UNCHANGED <<state, audio_buffer, vad, vad_result, run>>
    /\ UNCHANGED <<callbacks, start_frames, end_frames, ctxVars, execVars, orchVars, audio_out>>

\* One send on the handler's own WebSocket.
WsSend(type, content) == <<Event("ws", type, content)>>

\* The observers AudioHandler registers: the messages one invocation sends
\* on the WebSocket (_on_stream_chunk sends nothing for STATE and AUDIO chunks).
ws_sends(e) ==
    CASE e.cb = "on_state_change" -> WsSend("state", e.content)
      [] e.cb = "on_audio_out" -> WsSend("bytes", e.content)
      [] e.cb = "on_transcript" -> WsSend("transcript", e.content)
      [] e.cb = "on_stream_chunk" /\ e.type = "THINKING" -> WsSend("thinking", e.content)
      [] e.cb = "on_stream_chunk" /\ e.type = "TEXT" -> WsSend("response", e.content)
      [] e.cb = "on_stream_chunk" /\ e.type = "TRANSCRIPT" -> WsSend("transcript", e.content)
      [] OTHER -> << >>

\* Everything sent to the client for the observer invocations of log.
RECURSIVE Sent(_)
Sent(log) == IF log = << >> THEN << >> ELSE ws_sends(Head(log)) \o Sent(Tail(log))

\* A plausible slip: the agent loop called whatever the text.
text_input_is_processed_always(text) == TRUE

\* `if text and self.pipeline.orchestrator:` (the orchestrator is always set)
text_input_is_processed(text) == text # ""

\* _handle_control for {"type": "text_input"}: a non-empty text goes to
\* orchestrator.process directly.
TextInput(c) ==
    /\ conn[c].pc = "recv"
    /\ \E text \in TextInputs :
         /\ conn' = [conn EXCEPT ![c] =
                       IF text_input_is_processed(text)
                       THEN [@ EXCEPT !.pc = "text_agent", !.call = "text_input"]
                       ELSE @]
         /\ last' = [op |-> "text_input", conn |-> c, text |-> text]
    /\ UNCHANGED <<state, audio_buffer, callbacks, vadVars, ctxVars, execVars, orchVars, audio_out>>

\* The text messages that are not one of the well-formed control messages
\* of the actions above: text that is not JSON, a push_to_talk message
\* without a state field, a message of a type the handler does not know.
ControlTexts == {"{", "{\"type\": \"push_to_talk\"}", "{\"type\": \"ping\"}"}

\* json.loads on the texts of the model: the dict, or the exception raised.
json_loads(text) ==
    CASE text = "{" -> [raise |-> "JSONDecodeError"]
      [] text = "{\"type\": \"push_to_talk\"}" -> [type |-> "push_to_talk"]
      [] OTHER -> [type |-> "ping"]

\* _handle_control(data) for the messages of ControlTexts: whether it raises
\* (data["state"] on a dict without the key is a KeyError).
handle_control_raises(data) ==
    data.type = "push_to_talk" /\ "state" \notin DOMAIN data

\* run receives one of ControlTexts. An exception of json.loads or of
\* _handle_control is caught neither in run nor in websocket_audio (which
\* catches WebSocketDisconnect only): the handler's task ends and the
\* connection is gone.
ReceiveText(c) ==
    /\ conn[c].pc = "recv"
    /\ \E text \in ControlTexts :
         LET data == json_loads(text)
             raised == IF "raise" \in DOMAIN data THEN TRUE ELSE handle_control_raises(data)
         IN  /\ conn' = [conn EXCEPT ![c] = IF raised THEN ConnClosed ELSE @]
             /\ last' = [op |-> "control", conn |-> c, text |-> text, pre |-> state,
                         raised |-> raised]
    /\ UNCHANGED <<state, audio_buffer, callbacks, vadVars, ctxVars, execVars, orchVars, audio_out>>

\* orchestrator.process returns or raises for a text_input.
TextAgentReturns(c) ==
    /\ conn[c].pc = "text_agent"
    /\ \E outcome \in AgentOutcomes :
         LET k == conn[c]
         IN  IF outcome = "raise"
             THEN Complete(c, [k EXCEPT
                      !.failed = @ \cup {"agent"},
                      !.log = @ \o WsSend("response",
                                  "I'm having trouble connecting to my brain. Try again in a moment. (error)")])
             ELSE LET k1 == [k EXCEPT !.log = @ \o WsSend("response", outcome)
                                                \o WsSend("thinking", "latency")]
                  IN  IF outcome # ""
                      THEN /\ conn' = [conn EXCEPT ![c] = [k1 EXCEPT !.pc = "text_tts"]]
                           /\ last' = NoLast
                      ELSE Complete(c, k1)
    /\ UNCHANGED <<state, audio_buffer, callbacks, vadVars, ctxVars, execVars, orchVars, audio_out>>

\* tts.synthesize returns or raises for a text_input.
TextTtsReturns(c) ==
    /\ conn[c].pc = "text_tts"
    /\ \E outcome \in TtsOutcomes :
         Complete(c, [conn[c] EXCEPT
             !.failed = IF outcome = "raise" THEN @ \cup {"tts"} ELSE @,
             !.log = @ \o (IF outcome = "raise" THEN << >> ELSE WsSend("bytes", "pcm"))])
    /\ UNCHANGED <<state, audio_buffer, callbacks, vadVars, ctxVars, execVars, orchVars, audio_out>>

\* An awaited STT, agent-loop or TTS call of connection c returns or raises.
StageReturns(c) ==
    \/ SttReturns(c)
    \/ AgentReturns(c)
    \/ TtsReturns(c)
    \/ TextAgentReturns(c)
    \/ TextTtsReturns(c)

\* ------------------------------------------------------------------ PCM conversion
\* A synthesized sample is a multiple of 1 / SampleDen in [-1, 1], kept as
\* its numerator; an array holds up to MaxSamples samples.
Samples == (0 - SampleDen)..SampleDen
SampleArrays == UNION {[1..n -> Samples] : n \in 0..MaxSamples}

NoAudioOut == [path |-> "none", audio |-> << >>, scaled |-> << >>, sent |-> << >>]

\* sample * k as a float: exact for the samples of the model.
\* astype(np.int16) truncates toward zero.
Truncated(num, den) == IF num >= 0 THEN num \div den ELSE 0 - ((0 - num) \div den)
scaled_sample(q, k) == Truncated(q * k, SampleDen)

\* astype(np.int16) of a float outside the int16 range is undefined in C:
\* the builds wrap modulo 2^16 or saturate.
Int16 == (0 - 32768)..32767
CastOutcomes == {"wrap", "saturate"}
astype_int16(v, cast) ==
    IF v \in Int16 THEN v
    ELSE IF cast = "wrap" THEN ((v + 32768) % 65536) - 32768
    ELSE IF v > 32767 THEN 32767 ELSE 0 - 32768

\* (tts_audio * 32767).astype(np.int16) in _process_utterance, and
\* (audio * 32768).astype(np.int16) in the text_input branch.
pcm_scale(path) == IF path = "pipeline" THEN 32767 ELSE 32768

to_pcm(audio, path, cast) ==
    [i \in 1..Len(audio) |-> astype_int16(scaled_sample(audio[i], pcm_scale(path)), cast)]

\* tts.synthesize has returned `audio` on the given path: the conversion
\* and the bytes handed to the client.
ConvertAudio(path) ==
    /\ \E audio \in SampleArrays, cast \in CastOutcomes :
         audio_out' = [path |-> path, audio |-> audio,
                       scaled |-> [i \in 1..Len(audio) |->
                                     scaled_sample(audio[i], pcm_scale(path))],
                       sent |-> to_pcm(audio, path, cast)]
    /\ UNCHANGED <<state, audio_buffer, callbacks, conn, last,
                   vadVars, ctxVars, execVars, orchVars>>

PipelineAudioOut == ConvertAudio("pipeline")

TextInputAudioOut == ConvertAudio("text_input")

\* The awaited STT, agent-loop or TTS call of connection c's utterance has
\* returned and the first observer invoked after it raises (a send on the
\* WebSocket of a client that has gone): nothing in _process_utterance
\* catches it outside the TTS try block, and there the except branch calls
\* the same observer again. The exception leaves process_push_to_talk or
\* feed_audio, _handle_control and run; the state keeps its value and the
\* handler's task is over.
ObserverRaises(c) ==
    /\ conn[c].pc \in {"stt", "agent", "tts"}
    /\ callbacks # NoConn
    /\ conn' = [conn EXCEPT ![c] = ConnClosed]
    /\ last' = [op |-> "observer_raised", conn |-> c, at |-> conn[c].pc, pre |-> state]
    /\ UNCHANGED <<state, audio_buffer, callbacks, vadVars, ctxVars, execVars, orchVars, audio_out>>

\* feed_audio of connection c reaches `await self._set_state(LISTENING)` and
\* the first observer raises: self.state is assigned and the segmenter has
\* seen the frame, but the buffer is neither cleared nor given the frame,
\* and the exception ends the handler's task as above.
ObserverRaisesOnSpeechStart(c) ==
    /\ conn[c].pc = "recv"
    /\ ~conn[c].ptt_active
    /\ callbacks # NoConn
    /\ ~feed_audio_ignored(state)
    /\ \E f \in Frames :
         LET r == process_chunk(vad, is_speech_frame(f), start_frames, end_frames)
         IN  /\ FrameAllowed(vad, is_speech_frame(f))
             /\ r.speech_start
             /\ state' = "listening"
             /\ vad' = r.vad
             /\ vad_result' = [is_speech |-> is_speech_frame(f),
                               speech_start |-> r.speech_start,
                               speech_end |-> r.speech_end, fresh |-> FALSE]
             /\ run' = RunReported(RunAfter(RunHeard(run, f, TRUE, FALSE),
                                            vad, is_speech_frame(f)),
                                   r.speech_start, r.speech_end)
    /\ conn' = [conn EXCEPT ![c] = ConnClosed]
    /\ last' = [op |-> "observer_raised", conn |-> c, at |-> "feed_audio", pre |-> state]
    /\ UNCHANGED <<audio_buffer, callbacks, start_frames, end_frames, ctxVars, execVars, orchVars, audio_out>>

\* ------------------------------------------------------------------ initial states
VadStart(sf, ef) ==
    /\ vad = VadInit
    /\ start_frames = sf
    /\ end_frames = ef
    /\ vad_result = NoResult
    /\ run = RunInit

CtxStart(m) ==
    /\ history = << >>
    /\ max_history = m
    /\ added = << >>
    /\ owners = << >>

\* An executor with the handlers hs; cf: whether its owner has assigned a
\* confirmation callback.
ExecStartWith(hs, bl, cf) ==
    /\ handlers = hs
    /\ on_confirm_request = cf
    /\ blocked_commands = bl
    /\ exec_last = NoExec
    /\ classified = NoClassified
    /\ shell = ShellIdle

ExecStart(hs, bl) == ExecStartWith(hs, bl, FALSE)

OrchStart(mi, mem, sk) ==
    /\ max_tool_iterations = mi
    /\ memory_enabled = mem
    /\ skills = sk
    /\ orch = OrchIdle(0)
    /\ other = OtherIdle(0)

PipeStart ==
    /\ state = "idle"
    /\ audio_buffer = << >>
    /\ callbacks = NoConn
    /\ conn = [c \in Conns |-> ConnClosed]
    /\ audio_out = NoAudioOut
    /\ last = NoLast

\* The defaults of the reference configuration, scaled to the bounds.
DefaultStart == 2
DefaultEnd == 2
DefaultHist == 2
DefaultIter == 2
OrchDefault == OrchStart(DefaultIter, TRUE, <<SkillName>>)

InitVAD ==
    /\ \E sf \in 1..MaxFrames, ef \in 1..MaxFrames : VadStart(sf, ef)
    /\ CtxStart(DefaultHist)
    /\ ExecStart(CoreTools, << >>)
    /\ OrchDefault
    /\ PipeStart

InitCtx ==
    /\ VadStart(DefaultStart, DefaultEnd)
    /\ \E m \in 0..MaxHist : CtxStart(m)
    /\ ExecStart(CoreTools, << >>)
    /\ OrchDefault
    /\ PipeStart

InitExec ==
    /\ VadStart(DefaultStart, DefaultEnd)
    /\ CtxStart(DefaultHist)
    /\ \E bl \in BlockLists : ExecStart({}, bl)
    /\ OrchDefault
    /\ PipeStart

InitRisk ==
    /\ VadStart(DefaultStart, DefaultEnd)
    /\ CtxStart(DefaultHist)
    /\ \E bl \in BlockLists : ExecStart(CoreTools, bl)
    /\ OrchDefault
    /\ PipeStart

InitShell ==
    /\ VadStart(DefaultStart, DefaultEnd)
    /\ CtxStart(DefaultHist)
    /\ \E cf \in BOOLEAN : ExecStartWith(CoreTools, << >>, cf)
    /\ OrchDefault
    /\ PipeStart

InitOrch ==
    /\ VadStart(DefaultStart, DefaultEnd)
    /\ CtxStart(DefaultHist)
    /\ \E cf \in BOOLEAN : ExecStartWith(CoreTools, << >>, cf)
    /\ \E mi \in 0..MaxIter, mem \in BOOLEAN, sk \in {<< >>, <<SkillName>>} :
          OrchStart(mi, mem, sk)
    /\ PipeStart

\* Two interleaved process invocations on one context store.
InitTurns ==
    /\ VadStart(DefaultStart, DefaultEnd)
    /\ \E m \in 0..MaxHist : CtxStart(m)
    /\ ExecStart(CoreTools, << >>)
    /\ OrchStart(1, FALSE, <<SkillName>>)
    /\ PipeStart

Init ==
    /\ VadStart(DefaultStart, DefaultEnd)
    /\ CtxStart(DefaultHist)
    /\ ExecStart(CoreTools, << >>)
    /\ OrchDefault
    /\ PipeStart

NextVAD == (\E s \in BOOLEAN : VadProcessChunk(s)) \/ VadReset

NextCtx == CtxAddTurn

NextExec == ExecRegisterAll \/ ExecExecute \/ ExecSetConfirm

NextRisk == ExecClassify \/ ExecExecuteOf(RiskExecCalls)

NextShell == ShellCall \/ ShellWrite \/ ShellTick \/ ShellExit \/ ShellTimeout

NextOrch == OrchProcess \/ OrchSkillReply \/ OrchLLMReply \/ OrchToolDone

NextPcm == PipelineAudioOut \/ TextInputAudioOut

NextTurns ==
    \/ OrchProcess
    \/ OrchSkillReply
    \/ OrchLLMReply
    \/ OrchToolDone
    \/ OtherProcess
    \/ OtherReturns

\* One step of the task of connection c.
HandlerStep(c) ==
    \/ Connect(c)
    \/ Disconnect(c)
    \/ ReceiveBytes(c)
    \/ PushToTalkStart(c)
    \/ PushToTalkStop(c)
    \/ TextInput(c)
    \/ ReceiveText(c)
    \/ StageReturns(c)

Next == \E c \in Conns : HandlerStep(c)

\* The server with longer push-to-talk buffers.
NextPtt ==
    \E c \in Conns :
        \/ Connect(c)
        \/ Disconnect(c)
        \/ ReceiveBytesUpTo(c, MaxPttLong)
        \/ PushToTalkStart(c)
        \/ PushToTalkStop(c)
        \/ TextInput(c)
        \/ ReceiveText(c)
        \/ StageReturns(c)

\* Serialized delivery: a handler takes a step only while no call of
\* another connection is in flight on the pipeline.
Serialized(c) == \A d \in Conns \ {c} : conn[d].pc \notin InFlight

NextSerial ==
    \E c \in Conns :
        \/ Serialized(c) /\ Connect(c)
        \/ Serialized(c) /\ Disconnect(c)
        \/ Serialized(c) /\ ReceiveBytes(c)
        \/ Serialized(c) /\ PushToTalkStart(c)
        \/ Serialized(c) /\ PushToTalkStop(c)
        \/ Serialized(c) /\ TextInput(c)
        \/ Serialized(c) /\ ReceiveText(c)
        \/ Serialized(c) /\ SttReturns(c)
        \/ Serialized(c) /\ AgentReturns(c)
        \/ Serialized(c) /\ TtsReturns(c)
        \/ Serialized(c) /\ TextAgentReturns(c)
        \/ Serialized(c) /\ TextTtsReturns(c)

SpecVAD == InitVAD /\ [][NextVAD]_vars

SpecCtx == InitCtx /\ [][NextCtx]_vars

SpecExec == InitExec /\ [][NextExec]_vars

SpecRisk == InitRisk /\ [][NextRisk]_vars

SpecShell == InitShell /\ [][NextShell]_vars

SpecOrch == InitOrch /\ [][NextOrch]_vars

SpecTurns == InitTurns /\ [][NextTurns]_vars

SpecPcm == Init /\ [][NextPcm]_vars

\* Serialized delivery, with observers that may raise.
NextDrop ==
    \/ NextSerial
    \/ \E c \in Conns : Serialized(c) /\ ObserverRaises(c)
    \/ \E c \in Conns : Serialized(c) /\ ObserverRaisesOnSpeechStart(c)

Spec == Init /\ [][Next]_vars

SpecPtt == Init /\ [][NextPtt]_vars

SpecSerial == Init /\ [][NextSerial]_vars

SpecDrop == Init /\ [][NextDrop]_vars

\* Every external call eventually returns or raises.
SpecLive == Spec /\ \A c \in Conns : WF_vars(StageReturns(c))

\* ------------------------------------------------------------------ segmenter claims
\* C7: from a freshly reset segmenter, speech_start is reported exactly on the
\* frame that completes a run of start_frames consecutive speech frames outside
\* speech (never on a shorter run), speech_end exactly on the frame that
\* completes a run of end_frames consecutive non-speech frames inside speech
\* (never on a shorter run), and a frame of the opposite kind zeroes the
\* other run counter.
VadHysteresis ==
    ~vad_result.fresh =>
      /\ vad_result.speech_start <=>
           (vad_result.is_speech /\ ~run.was_in_speech /\ run.speech = start_frames)
      /\ vad_result.speech_end <=>
           (~vad_result.is_speech /\ run.was_in_speech /\ run.silence = end_frames)
      /\ vad_result.speech_start => run.speech >= start_frames
      /\ vad_result.speech_end => run.silence >= end_frames
      /\ vad_result.is_speech => vad.silence_frames = 0
      /\ ~vad_result.is_speech => vad.speech_frames = 0
      /\ vad.speech_frames = run.speech
      /\ vad.silence_frames = run.silence

\* A speech_end reported after a multi-frame silence that followed a
\* multi-frame start.
VadHysteresisWitness ==
    /\ ~vad_result.fresh
    /\ vad_result.speech_end
    /\ run.silence = end_frames
    /\ end_frames >= 2
    /\ start_frames >= 2

\* C28: reset returns the segmenter to its initial state (both counters
\* zero, in_speech false) whatever frames were processed before; after it a
\* speech_start is reported only on a run of at least start_frames speech
\* frames fed since the reset, a speech_end only after a speech_start
\* reported since the reset, and a second reset changes nothing.
ResetRestoresInitial ==
    /\ vad_result.fresh => vad = VadInit
    /\ (~vad_result.fresh /\ vad_result.speech_start) => run.speech >= start_frames
    /\ (~vad_result.fresh /\ vad_result.speech_end) => run.was_in_speech
    /\ run.open = vad.in_speech
    /\ vad_reset(vad_reset(vad)) = vad_reset(vad)

\* A speech_end reported after a reset that was made inside speech: the
\* frames since that reset alone opened the segment again.
ResetRestoresInitialWitness ==
    /\ ~vad_result.fresh
    /\ vad_result.speech_end
    /\ run.dirty

\* C35: between two resets, whatever the frames, speech_start and speech_end
\* are never reported on the same frame, they alternate beginning with
\* speech_start (a start is reported only while no segment is open, an end
\* only while one is), in_speech changes on the frames that report an edge
\* only, and it is set exactly while a segment is open.
EdgesAlternate ==
    /\ [](~(vad_result.speech_start /\ vad_result.speech_end))
    /\ [](vad.in_speech <=> run.open)
    /\ [][~vad_result'.fresh =>
             /\ vad_result'.speech_start => (~run.open /\ ~vad.in_speech /\ vad'.in_speech)
             /\ vad_result'.speech_end => (run.open /\ vad.in_speech /\ ~vad'.in_speech)
             /\ (vad'.in_speech # vad.in_speech) =>
                   (vad_result'.speech_start \/ vad_result'.speech_end)]_vars

\* A second speech_start since the reset: a speech_end was reported before it.
EdgesAlternateWitness ==
    /\ ~vad_result.fresh
    /\ vad_result.speech_start
    /\ run.closed
    /\ run.open

\* ------------------------------------------------------------------ context store claims
\* C8 (as stated): after any sequence of add_turn calls, for every
\* non-negative max_history, the store holds at most 2 x max_history turns.
CtxWithinCapacity == Len(history) <= 2 * max_history

\* C9 (as stated): after adding 2N+k turns (N = max_history, k >= 0) to an
\* empty store, get_messages returns exactly the 2N most recently added
\* turns, oldest first, role and content unchanged.
CtxKeepsMostRecent ==
    Len(added) >= 2 * max_history =>
      get_messages(history) = get_messages(LastN(added, 2 * max_history))

\* ------------------------------------------------------------------ executor claims
\* C5: the handler of a call classified dangerous is invoked only if no
\* confirmation callback is registered or the callback returned true; a
\* denial yields a non-error cancellation result and no handler invocation;
\* with no callback a dangerous call of a registered tool runs unconfirmed;
\* the callback is never awaited for a safe or moderate call.
ConfirmationGate ==
    exec_last.called =>
      /\ (exec_last.handler_invoked /\ exec_last.risk = "dangerous")
            => (~exec_last.confirm \/ exec_last.answer)
      /\ (exec_last.confirm_awaited /\ ~exec_last.answer)
            => /\ exec_last.result = ToolResult(exec_last.tool_call.id, CANCELLED, FALSE)
               /\ ~exec_last.handler_invoked
      /\ (exec_last.risk = "dangerous" /\ ~exec_last.confirm)
            => (exec_last.handler_invoked /\ ~exec_last.confirm_awaited)
      /\ exec_last.risk \in {"safe", "moderate"} => ~exec_last.confirm_awaited
      /\ exec_last.confirm_awaited => exec_last.confirm

\* A dangerous shell command denied by a registered callback.
ConfirmationGateWitness ==
    /\ exec_last.called
    /\ exec_last.tool_call.name = "run_shell"
    /\ exec_last.risk = "dangerous"
    /\ exec_last.confirm_awaited
    /\ ~exec_last.answer
    /\ ~exec_last.handler_invoked

\* C13: execute on a name with no registered handler returns the error
\* result "Unknown tool: <name>" and neither awaits the confirmation callback
\* nor invokes a handler, whatever the static class of the name.
UnknownToolIsErrorResult ==
    (exec_last.called /\ ~exec_last.registered) =>
      /\ exec_last.result =
            ToolResult(exec_last.tool_call.id,
                       <<"Unknown tool: ", exec_last.tool_call.name>>, TRUE)
      /\ ~exec_last.confirm_awaited
      /\ ~exec_last.handler_invoked

\* kill_process, statically dangerous, executed on an executor that has a
\* confirmation callback but no handler for it.
UnknownToolWitness ==
    /\ exec_last.called
    /\ ~exec_last.registered
    /\ exec_last.tool_call.name = "kill_process"
    /\ RISK_MAP[exec_last.tool_call.name] = "dangerous"
    /\ exec_last.confirm
    /\ exec_last.result.is_error

\* C20: output longer than output_max_chars comes back as its first
\* output_max_chars characters, unchanged, followed by the truncation marker;
\* output of at most output_max_chars characters comes back unmodified.
OutputTruncation ==
    (exec_last.called /\ exec_last.handler_invoked /\ exec_last.outcome.kind = "return") =>
      LET out == exec_last.outcome.out
          content == exec_last.result.content
      IN  /\ ~exec_last.result.is_error
          /\ IF Len(out) > output_max_chars
             THEN /\ Len(content) = output_max_chars + 1
                  /\ \A i \in 1..output_max_chars : content[i] = out[i]
                  /\ content[output_max_chars + 1] = "\n...(truncated)"
             ELSE content = out

\* An output two characters over the budget was cut.
OutputTruncationWitness ==
    /\ exec_last.called
    /\ exec_last.handler_invoked
    /\ exec_last.outcome.kind = "return"
    /\ Len(exec_last.outcome.out) = output_max_chars + 2
    /\ Len(exec_last.result.content) = output_max_chars + 1

\* ------------------------------------------------------------------ risk classification claims
SameInput(a, b) == a.name = b.name /\ a.args = b.args

\* C24: when a run_shell command has not finished when its timeout
\* expires, the process is killed, run_shell returns (execute's result is
\* not the error result of a raised exception) the message naming the
\* timeout, with none of what the process wrote, and execute hands it on
\* as an ordinary ToolResult under the call's id.
ShellTimeoutResult ==
    (shell.pc = "returned" /\ shell.elapsed = shell.timeout) =>
      /\ shell.proc = "killed"
      /\ shell.returned = timeout_message(shell.timeout)
      /\ \A i \in 1..Len(shell.returned) :
            /\ \A j \in 1..Len(shell.stdout) : shell.returned[i] # shell.stdout[j]
            /\ \A j \in 1..Len(shell.stderr) : shell.returned[i] # shell.stderr[j]
      /\ exec_last.called
      /\ exec_last.handler_invoked
      /\ exec_last.outcome.kind = "return"
      /\ exec_last.result = ToolResult(shell.tool_call.id, shell.returned, FALSE)

\* A command that had written to both pipes when its timeout of two
\* seconds expired.
ShellTimeoutWitness ==
    /\ shell.pc = "returned"
    /\ shell.elapsed = shell.timeout
    /\ shell.timeout = 2
    /\ shell.stdout # << >>
    /\ shell.stderr # << >>
    /\ exec_last.called

ClaimedRisk(tc, blocked) ==
    CASE tc.name = "kill_process" -> "dangerous"
      [] tc.name \in {"read_file", "list_directory", "search_files", "list_processes",
                      "web_search", "fetch_page", "ha_get_states", "ha_get_state",
                      "ha_get_history"} -> "safe"
      [] tc.name = "run_shell" ->
            IF "command" \in DOMAIN tc.args
               /\ \/ tc.args.command \in {CmdRmRoot, CmdRedirect}
                  \/ tc.args.command = CmdSudo /\ blocked # << >>
            THEN "dangerous" ELSE "moderate"
      [] OTHER -> "moderate"

RiskRank(r) == CASE r = "safe" -> 0 [] r = "moderate" -> 1 [] OTHER -> 2

\* C19: classify_risk returns the level of the static table (MODERATE for
\* a name the table does not have) for every tool but the shell tool,
\* whatever the arguments, and for the shell tool DANGEROUS when the command
\* holds a blocked substring or a destructive pattern and MODERATE
\* otherwise; the result is never below the static level.
RiskValues ==
    /\ classified.called =>
          /\ classified.risk = ClaimedRisk(classified.tool_call, blocked_commands)
          /\ RiskRank(classified.risk)
                >= RiskRank(dict_get(RISK_MAP, classified.tool_call.name, "moderate"))
          /\ classified.tool_call.name # "run_shell"
                => classified.risk = dict_get(RISK_MAP, classified.tool_call.name, "moderate")
    /\ (exec_last.called /\ exec_last.registered) =>
          exec_last.risk = ClaimedRisk(exec_last.tool_call, blocked_commands)

\* A shell command with a destructive pattern in its middle was classified.
RiskValuesWitness ==
    /\ classified.called
    /\ classified.tool_call.name = "run_shell"
    /\ classified.tool_call.args = [command |-> CmdRedirect]
    /\ classified.risk = "dangerous"

\* ------------------------------------------------------------------ agent loop claims
\* C6 (as stated): one process invocation makes at most max_tool_iterations
\* LLM calls.
LLMCallsWithinIterations == orch.llm_calls <= max_tool_iterations

\* C6 (amended): one process invocation makes at most max_tool_iterations
\* LLM calls in its tool loop, and at most one more, the skill-selection
\* call, which is made only when skills are loaded; the loop never awaits a
\* further LLM call once max_tool_iterations calls have been made.
LoopCallsWithinIterations ==
    /\ orch.iter <= max_tool_iterations
    /\ orch.llm_calls <= max_tool_iterations + 1
    /\ orch.llm_calls - orch.iter \in {0, 1}
    /\ (skills = << >>) => orch.llm_calls = orch.iter
    /\ orch.pc = "llm" => orch.iter < max_tool_iterations

\* The loop used up two or more iterations, the last response still asked
\* for tools, and process returned.
LoopCallsWitness ==
    /\ orch.pc = "returned"
    /\ max_tool_iterations >= 2
    /\ orch.iter = max_tool_iterations
    /\ orch.result.tool_calls # << >>
    /\ orch.llm_calls = max_tool_iterations + 1

\* C10 (as stated): a memory search that raises in step 1 is swallowed, and
\* process does not raise to its caller because of it.
MemorySearchFailureSwallowed ==
    orch.pc = "raised" => orch.raised_by # "memory_search"

\* The last message of the sequence.
LastMessage(o) == o.messages[Len(o.messages)]

\* C12: when the handler of a registered tool raises, execute returns an
\* error result carrying the exception's kind and message, and process goes
\* on with that content appended as the tool-result message; process never
\* raises because of it.
ToolFailureBecomesData ==
    (orch.exec.called /\ orch.exec.handler_invoked /\ orch.exec.outcome.kind = "raise") =>
      /\ orch.exec.result =
            [tool_call_id |-> orch.exec.tool_call.id,
             content |-> <<"Error: ", orch.exec.outcome.exc, ": ", orch.exec.outcome.msg>>,
             is_error |-> TRUE]
      /\ LastMessage(orch) =
            [role |-> "tool", tool_call_id |-> orch.exec.tool_call.id,
             content |-> <<"Error: ", orch.exec.outcome.exc, ": ", orch.exec.outcome.msg>>]
      /\ orch.pc \in {"tool", "llm", "returned", "raised"}
      /\ orch.pc = "raised" => orch.raised_by = "llm_chat"

\* The handler of the last tool call raised, and process returned a Response.
ToolFailureWitness ==
    /\ orch.pc = "returned"
    /\ orch.exec.called
    /\ orch.exec.handler_invoked
    /\ orch.exec.outcome.kind = "raise"
    /\ orch.exec.result.is_error
    /\ orch.response.returned

\* C15: the tool calls are executed one per step in the order the LLM
\* returned them; each has appended its assistant tool-call message and its
\* tool-result message, in that order, after the messages of step 4; no LLM
\* call is made while a call of the previous response is still to execute;
\* and within one invocation the message sequence only grows at its end.
ToolCallsInOrder ==
    /\ [](orch.tool_calls_made \o orch.pending = orch.requested)
    /\ [](/\ Len(orch.messages) = orch.base + 2 * Len(orch.tool_calls_made)
          /\ \A i \in 1..Len(orch.tool_calls_made) :
                LET tc == orch.tool_calls_made[i]
                    asked == orch.messages[orch.base + 2 * i - 1]
                    told == orch.messages[orch.base + 2 * i]
                IN  /\ asked.role = "assistant"
                    /\ asked.tool_calls =
                          << [id |-> tc.id, type |-> "function",
                              function |-> [name |-> tc.name,
                                            arguments |-> json_dumps(tc.args)]] >>
                    /\ told.role = "tool"
                    /\ told.tool_call_id = tc.id)
    /\ [](orch.exec.called => LastMessage(orch).content = orch.exec.result.content)
    /\ [](orch.pc = "llm" => orch.pending = << >>)
    /\ [][orch'.n = orch.n =>
             /\ Len(orch'.messages) >= Len(orch.messages)
             /\ SubSeq(orch'.messages, 1, Len(orch.messages)) = orch.messages]_vars

\* A batch of two calls was executed and the LLM is being called again.
ToolCallsInOrderWitness ==
    /\ orch.pc = "llm"
    /\ orch.iter >= 1
    /\ Len(orch.tool_calls_made) >= 2
    /\ orch.tool_calls_made[1] # orch.tool_calls_made[2]

\* C16: the result of every execute call carries the id of the call it was
\* given, and every tool-result message stands right after an assistant
\* tool-call message with the same id, the id of a call the LLM returned in
\* this invocation.
ToolCallIdsMatch ==
    /\ orch.exec.called => orch.exec.result.tool_call_id = orch.exec.tool_call.id
    /\ \A j \in 1..Len(orch.messages) :
          orch.messages[j].role = "tool" =>
            /\ j > 1
            /\ orch.messages[j - 1].role = "assistant"
            /\ "tool_calls" \in DOMAIN orch.messages[j - 1]
            /\ orch.messages[j - 1].tool_calls[1].id = orch.messages[j].tool_call_id
            /\ \E i \in 1..Len(orch.requested) :
                  orch.requested[i].id = orch.messages[j].tool_call_id

\* A dangerous call of the batch was cancelled by the confirmation callback.
ToolCallIdsWitness ==
    /\ orch.exec.called
    /\ orch.exec.confirm_awaited
    /\ ~orch.exec.handler_invoked
    /\ orch.exec.result.content = CANCELLED
    /\ LastMessage(orch).role = "tool"

\* C17: when the memory write or the capture-log write raises, process
\* returns the Response it returns otherwise (the final text and the tool
\* calls made), the user and assistant turns are in the context store, and
\* the capture log is written whatever the memory write did.
WriteFailuresSwallowed ==
    orch.pc = "returned" =>
      /\ orch.response = Response(final_text_of(orch.result), orch.tool_calls_made)
      /\ Len(history) >= 2
      /\ history[Len(history) - 1] = [role |-> "user", content |-> orch.user_input]
      /\ history[Len(history)] = [role |-> "assistant", content |-> orch.response.text]
      /\ memory_enabled => orch.capture \in {"ok", "failed"}
      /\ (memory_enabled /\ orch.response.text # "") => orch.mem_add \in {"ok", "failed"}

\* Both writes failed after a response that used a tool.
WriteFailuresWitness ==
    /\ orch.pc = "returned"
    /\ orch.mem_add = "failed"
    /\ orch.capture = "failed"
    /\ orch.response.text # ""
    /\ orch.tool_calls_made # << >>

\* C26: when the first LLM call of the loop returns a text and no tool
\* calls, process returns that text unchanged with tool_calls_made empty,
\* has made that one loop call only and executed no tool, and the context
\* store has grown by the user turn followed by the assistant turn.
TextOnlyReply ==
    (/\ orch.pc = "returned"
     /\ orch.iter = 1
     /\ orch.result.tool_calls = << >>
     /\ orch.result.content # "None") =>
      /\ orch.response.returned
      /\ orch.response.text = orch.result.content
      /\ orch.response.tool_calls_made = << >>
      /\ orch.llm_calls = (IF skills # << >> THEN 2 ELSE 1)
      /\ ~orch.exec.called
      /\ orch.executed = << >>
      /\ Len(orch.messages) = orch.base
      /\ Len(history) = Min(orch.base, 2 * max_history)
      /\ LastN(history, 2) = << [role |-> "user", content |-> orch.user_input],
                                [role |-> "assistant", content |-> orch.result.content] >>
      /\ LastN(added, 2) = LastN(history, 2)

\* A text-only reply returned on the second invocation, with the turns of
\* the first one already in the context.
TextOnlyReplyWitness ==
    /\ orch.pc = "returned"
    /\ orch.iter = 1
    /\ orch.result = [content |-> "a", tool_calls |-> << >>]
    /\ orch.n = 2
    /\ Len(history) = 4

\* C27: the tool_calls_made of the Response is the sequence of the calls
\* handed to executor.execute in this invocation, in execution order; while
\* the invocation runs, the list under construction equals the calls
\* executed so far.
ToolCallsMadeExact ==
    /\ orch.tool_calls_made = orch.executed
    /\ orch.exec.called => orch.executed[Len(orch.executed)] = orch.exec.tool_call
    /\ orch.pc = "returned" =>
          /\ orch.response.returned
          /\ orch.response.tool_calls_made = orch.executed

\* A Response after the same call was executed in two iterations: it is
\* listed twice.
ToolCallsMadeWitness ==
    /\ orch.pc = "returned"
    /\ Len(orch.executed) = 2
    /\ orch.executed[1] = orch.executed[2]

\* The last loop call of the invocation was made at the iteration limit, it
\* returned, and its response asked for tool calls.
LimitReached(o) ==
    /\ o.pc # "raised"
    /\ o.iter >= 1
    /\ o.iter = max_tool_iterations
    /\ o.result # EmptyResult
    /\ o.result.tool_calls # << >>

\* C31: when the iteration limit is reached while the LLM still asks for
\* tool calls, the calls of that final response are executed and recorded
\* like any others (each with its two messages), no LLM call follows them,
\* the returned text is the content of that response ("" when it had none),
\* and the user turn and that text are appended to the context store.
LimitStillExecutesTools ==
    /\ [](LimitReached(orch) => orch.pc \in {"tool", "returned"})
    /\ []((LimitReached(orch) /\ orch.pc = "returned") =>
            LET final == orch.result.tool_calls
                n == Len(final)
            IN  /\ orch.pending = << >>
                /\ LastN(orch.executed, n) = final
                /\ LastN(orch.tool_calls_made, n) = final
                /\ orch.response.tool_calls_made = orch.requested
                /\ \A i \in 1..n :
                      /\ orch.messages[Len(orch.messages) - 2 * (n - i) - 1].tool_calls[1].id
                            = final[i].id
                      /\ orch.messages[Len(orch.messages) - 2 * (n - i)].role = "tool"
                /\ orch.iter = max_tool_iterations
                /\ orch.llm_calls = max_tool_iterations + (IF skills # << >> THEN 1 ELSE 0)
                /\ orch.response.text =
                      (IF orch.result.content = "None" THEN "" ELSE orch.result.content)
                /\ LastN(history, 2) =
                      << [role |-> "user", content |-> orch.user_input],
                         [role |-> "assistant", content |-> orch.response.text] >>
                /\ LastN(added, 2) = LastN(history, 2))
    /\ [][(LimitReached(orch) /\ orch.pc = "tool" /\ orch'.n = orch.n) =>
             /\ orch'.llm_calls = orch.llm_calls
             /\ orch'.pc = (IF Len(orch.pending) = 1 THEN "returned" ELSE "tool")]_vars

\* The second and last response of the loop asked for a tool and had no
\* content: process returned the empty text after executing the call.
LimitStillExecutesToolsWitness ==
    /\ orch.pc = "returned"
    /\ max_tool_iterations = 2
    /\ orch.iter = 2
    /\ orch.result = [content |-> "None", tool_calls |-> <<TcKill>>]
    /\ orch.exec.called
    /\ orch.exec.tool_call = TcKill
    /\ orch.response.text = ""

\* C36: after any process invocations, interleaved or not, the context store
\* holds an even number of turns that alternate user, assistant beginning
\* with a user turn, and each user turn is immediately followed by the
\* assistant turn of the same invocation.
TurnsPaired ==
    /\ Len(history) % 2 = 0
    /\ Len(owners) = Len(history)
    /\ \A i \in 1..Len(history) :
          /\ history[i].role = (IF i % 2 = 1 THEN "user" ELSE "assistant")
          /\ i % 2 = 1 => owners[i + 1] = owners[i]
    /\ \A i \in 1..Len(history) :
          i % 2 = 1 => history[i].content =
                         (IF owners[i].by = "other" THEN "b" ELSE "a")

\* The second invocation returned while the first was suspended in a tool
\* call; the first then returned, and the store, trimmed to one pair,
\* holds the pair of the first alone.
TurnsPairedWitness ==
    /\ max_history = 1
    /\ orch.pc = "returned"
    /\ orch.n = 1
    /\ other.pc = "returned"
    /\ other.during = "tool"
    /\ Len(added) = 4
    /\ owners = << [by |-> "process", n |-> 1], [by |-> "process", n |-> 1] >>

\* C37: when an LLM call raises in process, in skill selection or in an
\* iteration of the loop, the exception leaves process (no Response), the
\* context store is as it was when the invocation began, and neither the
\* long-term memory nor the capture log is written for that input.
LLMFailurePropagates ==
    orch.raised_by \in {"skill_select", "llm_chat"} =>
      /\ orch.pc = "raised"
      /\ orch.response = NoResponse
      /\ history = orch.before
      /\ Len(added) % 2 = 0
      /\ Len(orch.before) >= 2 =>
            LastN(added, 2) = LastN(orch.before, 2)
      /\ (orch.before = << >> /\ max_history > 0) => added = << >>
      /\ orch.mem_add = "skipped"
      /\ orch.capture = "skipped"

\* The second LLM call of the loop raised after a tool had been executed,
\* in the second invocation on a store that holds the pair of the first.
LLMFailureWitness ==
    /\ orch.pc = "raised"
    /\ orch.raised_by = "llm_chat"
    /\ orch.iter = 2
    /\ orch.exec.called
    /\ orch.n = 2
    /\ Len(history) = 2
    /\ memory_enabled

\* ------------------------------------------------------------------ pipeline claims
\* The TEXT chunk reported when a stage of _process_utterance raises.
FailureText(stage) ==
    CASE stage = "stt" -> "I couldn't process the audio: error"
      [] stage = "agent" -> "I'm having trouble connecting to my brain. Try again in a moment."
      [] OTHER -> "(Voice unavailable: error)"

\* C1: every utterance that enters PROCESSING brings the pipeline back to
\* IDLE, whether STT, the agent loop and TTS return or raise, and every
\* stage that raised has reported a TEXT chunk by then.
UtteranceReturnsToIdle ==
    /\ \A c \in Conns :
         (conn[c].pc \in {"stt", "agent", "tts"})
            ~> (last.op = "done" /\ last.conn = c /\ state = "idle")
    /\ [](\A c \in Conns : \A stage \in conn[c].failed :
            conn[c].call = "text_input"
            \/ \E i \in 1..Len(conn[c].log) :
                 conn[c].log[i] = Event("on_stream_chunk", "TEXT", FailureText(stage)))
    /\ []((last.op = "done" /\ last.call # "text_input") =>
            /\ state = "idle"
            /\ \A stage \in last.failed :
                 \E i \in 1..Len(last.log) :
                    last.log[i] = Event("on_stream_chunk", "TEXT", FailureText(stage)))

\* An utterance whose TTS raised has finished.
UtteranceReturnsToIdleWitness ==
    /\ last.op = "done"
    /\ last.call = "process_push_to_talk"
    /\ "tts" \in last.failed
    /\ state = "idle"

\* C2: a feed_audio call made while the state is PROCESSING or SPEAKING
\* leaves the segmenter uninvoked, the audio buffer and the state unchanged,
\* and invokes no observer.
FeedIgnoredWhileBusy ==
    [][(last'.op = "feed_audio" /\ last'.pre \in Busy) =>
          /\ UNCHANGED <<state, audio_buffer, vad, vad_result, run>>
          /\ last'.log = << >>
          /\ conn'[last'.conn].pc = "recv"]_vars

\* feed_audio was called while another connection's utterance was being spoken.
FeedIgnoredWitness ==
    /\ last.op = "feed_audio"
    /\ last.pre = "speaking"
    /\ state = "speaking"

\* C3 (as stated): at most one feed_audio, process_push_to_talk or
\* text-input invocation is in progress on the pipeline at any time.
OneInFlight == Cardinality({c \in Conns : conn[c].pc \in InFlight}) <= 1

\* C4 (as stated): SPEAKING is entered only from PROCESSING, and only with
\* an agent text that is non-empty after stripping.
SpeakingOnlyFromProcessing ==
    last.op = "speaking" => (last.pre = "processing" /\ Strip(last.text) # "")

\* C11 (as stated): a text message that is not valid JSON, a push_to_talk
\* message without a state field, or a message of unrecognized type leaves
\* the session alive (run goes on receiving) and the pipeline state unchanged.
MalformedControlNotFatal ==
    last.op = "control" => (conn[last.conn].pc = "recv" /\ state = last.pre)

\* Whether the events of log hold the one of observer cb with this type and content.
Reported(log, cb, type, content) ==
    \E i \in 1..Len(log) : log[i] = Event(cb, type, content)

\* C14: an utterance whose transcript is empty or whitespace-only ends in the
\* STT stage: it has reported the transcript to on_transcript and as a
\* TRANSCRIPT chunk, then the "didn't catch that" TEXT chunk, the state is
\* IDLE, and it has reported no SPEAKING state; the agent loop and TTS are
\* awaited only for an utterance whose transcript has a non-whitespace character.
EmptyTranscriptSkipsAgent ==
    /\ (last.op = "done" /\ last.at = "stt") =>
          /\ \E t \in {"", " "} :
                /\ Reported(last.log, "on_transcript", "TRANSCRIPT", t)
                /\ Reported(last.log, "on_stream_chunk", "TRANSCRIPT", t)
          /\ Reported(last.log, "on_stream_chunk", "TEXT",
                      "I didn't catch that. Could you repeat?")
          /\ ~Reported(last.log, "on_state_change", "STATE", "speaking")
          /\ state = "idle"
    /\ \A c \in Conns :
          conn[c].pc \in {"agent", "tts"} =>
            /\ ~Reported(conn[c].log, "on_transcript", "TRANSCRIPT", "")
            /\ ~Reported(conn[c].log, "on_transcript", "TRANSCRIPT", " ")
            /\ Reported(conn[c].log, "on_transcript", "TRANSCRIPT", "hello")

\* An utterance with a whitespace-only transcript has finished.
EmptyTranscriptWitness ==
    /\ last.op = "done"
    /\ last.at = "stt"
    /\ last.failed = {}
    /\ Reported(last.log, "on_transcript", "TRANSCRIPT", " ")

\* C25: a push_to_talk start sets PTT active and empties the PTT buffer;
\* a binary message received while PTT is active is appended to the buffer
\* and feed_audio is called only by a handler whose PTT is not active; a
\* push_to_talk stop clears PTT active, makes no call on an empty buffer
\* and on a non-empty one a single process_push_to_talk call whose audio is
\* the buffer, its bytes in arrival order; the buffer is empty once that
\* call has returned.
PttProtocol ==
    /\ last.op = "ptt_start" =>
          /\ conn[last.conn].ptt_active
          /\ conn[last.conn].ptt_buffer = << >>
          /\ conn[last.conn].pc = "recv"
    /\ last.op = "ptt_bytes" =>
          /\ conn[last.conn].ptt_active
          /\ conn[last.conn].ptt_buffer = last.buffer \o <<last.bytes>>
          /\ conn[last.conn].pc = "recv"
    /\ last.op = "feed_audio" => ~conn[last.conn].ptt_active
    /\ last.op = "ptt_stop" =>
          /\ ~conn[last.conn].ptt_active
          /\ last.buffer = << >>
          /\ conn[last.conn].ptt_buffer = << >>
          /\ conn[last.conn].pc = "recv"
    /\ last.op = "process_push_to_talk" =>
          /\ ~conn[last.conn].ptt_active
          /\ last.buffer # << >>
          /\ conn[last.conn].pc = "stt"
          /\ conn[last.conn].call = "process_push_to_talk"
          /\ conn[last.conn].audio = last.buffer
    /\ (last.op = "done" /\ last.call = "process_push_to_talk") =>
          /\ conn[last.conn].ptt_buffer = << >>
          /\ ~conn[last.conn].ptt_active
          /\ conn[last.conn].pc = "recv"
    /\ \A c \in Conns :
          conn[c].call = "process_push_to_talk" =>
             (conn[c].pc \in {"stt", "agent", "tts"} /\ ~conn[c].ptt_active)

\* A stop whose two different buffered chunks go to STT in arrival order,
\* while the pipeline was listening to frames fed before the start.
PttProtocolWitness ==
    /\ last.op = "process_push_to_talk"
    /\ last.pre = "listening"
    /\ last.buffer = <<"n", "s">>
    /\ conn[last.conn].audio = <<"n", "s">>

\* The calls that process an utterance.
UtteranceCalls == {"feed_audio", "process_push_to_talk"}

\* How many elements of seq are events of callback cb (of the sends: "ws")
\* with the given type.
CountOf(seq, cb, type) ==
    Cardinality({i \in 1..Len(seq) : seq[i].cb = cb /\ seq[i].type = type})

\* C21 (as stated): in a finished utterance every transition reached each
\* of the two observers once and the client as one state message, the
\* transcript reached on_transcript and on_stream_chunk once each and the
\* client as one transcript message, and at most one binary frame was sent.
ReportedExactlyOnce ==
    (last.op = "done" /\ last.call \in UtteranceCalls) =>
      LET sent == Sent(last.log)
      IN  /\ CountOf(last.log, "on_state_change", "STATE")
               = CountOf(last.log, "on_stream_chunk", "STATE")
          /\ CountOf(sent, "ws", "state") = CountOf(last.log, "on_state_change", "STATE")
          /\ CountOf(last.log, "on_transcript", "TRANSCRIPT") <= 1
          /\ CountOf(last.log, "on_stream_chunk", "TRANSCRIPT")
               = CountOf(last.log, "on_transcript", "TRANSCRIPT")
          /\ CountOf(sent, "ws", "transcript") = CountOf(last.log, "on_transcript", "TRANSCRIPT")
          /\ CountOf(sent, "ws", "bytes") <= 1
          /\ CountOf(sent, "ws", "response") = CountOf(last.log, "on_stream_chunk", "TEXT")
          /\ CountOf(sent, "ws", "thinking") = CountOf(last.log, "on_stream_chunk", "THINKING")

\* C22 (as stated): the events of a finished utterance come in stage order:
\* the processing state first, the TRANSCRIPT chunk before every TEXT chunk,
\* a TEXT chunk before the speaking state, the AUDIO chunk only in the
\* SPEAKING state, the idle STATE chunk last.
StageOrder ==
    (last.op = "done" /\ last.call \in UtteranceCalls) =>
      LET log == last.log
          n == Len(log)
          IsChunk(i, type) == log[i].cb = "on_stream_chunk" /\ log[i].type = type
      IN  /\ n >= 1
          /\ log[1] = Event("on_state_change", "STATE", "processing")
          /\ \A i, j \in 1..n : (IsChunk(i, "TRANSCRIPT") /\ IsChunk(j, "TEXT")) => i < j
          /\ \A j \in 1..n :
                (log[j].type = "STATE" /\ log[j].content = "speaking") =>
                   \E i \in 1..(j - 1) : IsChunk(i, "TEXT")
          /\ (\E i \in 1..n : log[i].type = "AUDIO") => last.pre = "speaking"
          /\ log[n] = Event("on_stream_chunk", "STATE", "idle")
          /\ \A i \in 1..(n - 2) : ~(log[i].type = "STATE" /\ log[i].content = "idle")

\* C23 (as stated): every finished utterance that entered PROCESSING has
\* reported a THINKING chunk, after its stages and before the return to IDLE.
ThinkingOnEveryPath ==
    (last.op = "done" /\ last.call \in UtteranceCalls /\ last.at \in {"stt", "agent", "tts"}) =>
      \E i \in 1..Len(last.log) :
         /\ last.log[i].cb = "on_stream_chunk"
         /\ last.log[i].type = "THINKING"
         /\ \A j \in 1..i : ~(last.log[j].type = "STATE" /\ last.log[j].content = "idle")

\* The states on_state_change was called with, in the order of log.
RECURSIVE StatesReported(_)
StatesReported(log) ==
    IF log = << >> THEN << >>
    ELSE (IF Head(log).cb = "on_state_change" THEN <<Head(log).content>> ELSE << >>)
         \o StatesReported(Tail(log))

\* The states passed to _set_state during the step that left the report l:
\* all those of a call's first step, the one that ends a call resumed after
\* an awaited stage, the entry to SPEAKING.
SetStates(l) ==
    CASE l.op \in {"feed_audio", "process_push_to_talk"} -> StatesReported(l.log)
      [] l.op = "speaking" -> <<"speaking">>
      [] l.op = "done" /\ l.call \in UtteranceCalls ->
            IF l.at \in InFlight THEN LastN(StatesReported(l.log), 1)
            ELSE StatesReported(l.log)
      [] OTHER -> << >>

LegalTransitions ==
    { <<"idle", "listening">>, <<"listening", "processing">>, <<"idle", "processing">>,
      <<"processing", "speaking">>, <<"processing", "idle">>, <<"speaking", "idle">> }

FedAudioFindsPipelineFree ==
    (last.op = "feed_audio" /\ \A c \in Conns : conn[c].pc \notin InFlight) =>
       last.pre \notin Busy

\* C32: the audio handed to STT for a VAD-segmented utterance is the
\* concatenation, in arrival order, of the frames fed from the frame that
\* reported speech_start through the frame that reported speech_end, none
\* lost and none twice; for push-to-talk it is the submitted buffer alone,
\* whatever had been accumulated while LISTENING.
SttAudioExact ==
    \A c \in Conns :
        (conn[c].pc = "stt" /\ last.op \in {"feed_audio", "process_push_to_talk"}
                           /\ last.conn = c) =>
          /\ audio_buffer = << >>
          /\ last.op = "feed_audio" =>
                /\ ~last.lost
                /\ conn[c].audio = last.heard
                /\ Len(last.heard) >= 1 + end_frames
                /\ is_speech_frame(Head(last.heard))
                /\ \A i \in 1..Len(last.heard) :
                      i > Len(last.heard) - end_frames => ~is_speech_frame(last.heard[i])
          /\ last.op = "process_push_to_talk" => conn[c].audio = last.buffer

\* C33: whenever the pipeline is IDLE and no pipeline call is in progress,
\* the audio buffer is empty (a frame fed while IDLE that reports no
\* speech_start is not buffered, and every path of an utterance back to
\* IDLE leaves the buffer cleared).
IdleBufferEmpty ==
    (state = "idle" /\ \A c \in Conns : conn[c].pc \notin InFlight) =>
       audio_buffer = << >>

\* C34: under serialized delivery with observers that do not raise, whenever
\* no pipeline call is in progress the state is LISTENING if and only if
\* the segmenter's in_speech flag is set.
ListeningIffInSpeech ==
    (\A c \in Conns : conn[c].pc \notin InFlight) =>
       (state = "listening" <=> vad.in_speech)

\* An utterance is being accumulated: the frame just fed, one without
\* speech, found the pipeline LISTENING and left it there.
ListeningIffInSpeechWitness ==
    /\ \A c \in Conns : conn[c].pc \notin InFlight
    /\ state = "listening"
    /\ vad.in_speech
    /\ last.op = "feed_audio"
    /\ last.pre = "listening"
    /\ Len(audio_buffer) >= 2
    /\ run.speech = 0

\* C38: the steps of a text_input (the control message, the return of the
\* agent loop, the return of TTS) leave the pipeline state, the audio
\* buffer, the segmenter, the callbacks and the handler's PTT flag and
\* buffer as they were; a non-empty text goes to the agent loop at once and
\* what the call sends holds no state message; an empty text changes
\* nothing at all: no agent-loop call, nothing sent.
TextInputFrame ==
    /\ [][\A c \in Conns :
             (conn'[c] # conn[c] /\ "text_input" \in {conn[c].call, conn'[c].call}) =>
                /\ state' = state
                /\ audio_buffer' = audio_buffer
                /\ vad' = vad
                /\ callbacks' = callbacks
                /\ conn'[c].ptt_active = conn[c].ptt_active
                /\ conn'[c].ptt_buffer = conn[c].ptt_buffer]_vars
    /\ [][(last'.op = "text_input" /\ last' # last) =>
             /\ state' = state
             /\ audio_buffer' = audio_buffer
             /\ vad' = vad
             /\ IF last'.text = ""
                THEN conn' = conn
                ELSE /\ conn'[last'.conn].pc = "text_agent"
                     /\ conn'[last'.conn].log = << >>]_vars
    /\ []((last.op = "done" /\ last.call = "text_input") =>
            /\ last.log # << >>
            /\ \A i \in 1..Len(last.log) :
                  /\ last.log[i].cb = "ws"
                  /\ last.log[i].type \in {"response", "thinking", "bytes"})

\* A text_input was answered with text and audio while the pipeline was
\* LISTENING and the handler's push-to-talk was active with audio buffered.
TextInputFrameWitness ==
    /\ last.op = "done"
    /\ last.call = "text_input"
    /\ last.at = "text_tts"
    /\ last.failed = {}
    /\ state = "listening"
    /\ vad.in_speech
    /\ audio_buffer # << >>
    /\ conn[last.conn].ptt_active
    /\ conn[last.conn].ptt_buffer # << >>

\* C39: every synthesized sample in [-1, 1], the endpoints included, is sent
\* as a 16-bit value equal to the scaled sample, which lies in
\* [-32768, 32767]: nothing overflows or wraps, on either path.
PcmWithinInt16 ==
    \A i \in 1..Len(audio_out.audio) :
        /\ audio_out.scaled[i] \in Int16
        /\ audio_out.sent[i] = audio_out.scaled[i]
        /\ (audio_out.audio[i] > 0) => audio_out.sent[i] > 0
        /\ (audio_out.audio[i] < 0) => audio_out.sent[i] < 0

====
